---- MODULE Spec2Model ----
(***************************************************************************)
(* Supplier item -> canonical ingredient matching.                         *)
(*                                                                         *)
(* The repository holds three engines, each with its own normalizer:       *)
(*   MatchingEngine  (src/src/matcher.py)   with preprocess_text           *)
(*   FuzzyMatcher    (src/app/matcher.py)   with TextPreprocessor          *)
(*   Matcher         (src/app/matching.py)  with processing.normalize      *)
(* Texts are TLA+ strings handled character by character; scores are exact *)
(* fractions <<numerator, denominator>>.                                   *)
(***************************************************************************)
EXTENDS Integers, Sequences, FiniteSets, TLC

(***************************************************************************)
(* Characters and the str / re primitives the code uses.                    *)
(***************************************************************************)
LowerLetters == "abcdefghijklmnopqrstuvwxyz"
UpperLetters == "ABCDEFGHIJKLMNOPQRSTUVWXYZ"
Digits == "0123456789"
\* code-point order of the characters the model uses (for sorted())
CodePoints == " !(),-." \o Digits \o UpperLetters \o "_" \o LowerLetters \o "é"

Ch(s, i) == SubSeq(s, i, i)

Within(c, chars) == \E i \in 1..Len(chars) : Ch(chars, i) = c

IndexIn(c, chars) == CHOOSE i \in 1..Len(chars) : Ch(chars, i) = c

IsDigit(c) == Within(c, Digits)

IsSpace(c) == c = " "

\* [a-z0-9]
IsAsciiLowerAlnum(c) == Within(c, LowerLetters) \/ IsDigit(c)

\* \w of a str pattern: letters (accented ones too), digits, underscore
IsWordChar(c) ==
    Within(c, LowerLetters) \/ Within(c, UpperLetters) \/ IsDigit(c) \/ c = "_" \/ c = "é"

ToLowerChar(c) == IF Within(c, UpperLetters) THEN Ch(LowerLetters, IndexIn(c, UpperLetters)) ELSE c

RECURSIVE MapLower(_)
MapLower(s) == IF s = "" THEN "" ELSE ToLowerChar(Ch(s, 1)) \o MapLower(Tail(s))

\* str.lower()
Lower(s) == MapLower(s)

RECURSIVE LStrip(_)
LStrip(s) == IF s # "" /\ IsSpace(Ch(s, 1)) THEN LStrip(Tail(s)) ELSE s

RECURSIVE RStrip(_)
RStrip(s) ==
    IF s # "" /\ IsSpace(Ch(s, Len(s))) THEN RStrip(SubSeq(s, 1, Len(s) - 1)) ELSE s

\* str.strip()
Strip(s) == RStrip(LStrip(s))

\* re.sub(r'\s+', ' ', text)
RECURSIVE CollapseWhitespace(_)
CollapseWhitespace(s) ==
    IF s = "" THEN ""
    ELSE IF IsSpace(Ch(s, 1))
         THEN " " \o CollapseWhitespace(LStrip(s))
         ELSE Ch(s, 1) \o CollapseWhitespace(Tail(s))

\* str.split(): the maximal runs of non-whitespace, in order
RECURSIVE WordEnd(_, _)
WordEnd(s, i) == IF i <= Len(s) /\ ~IsSpace(Ch(s, i)) THEN WordEnd(s, i + 1) ELSE i

RECURSIVE SplitFrom(_, _)
SplitFrom(s, i) ==
    IF i > Len(s) THEN <<>>
    ELSE IF IsSpace(Ch(s, i)) THEN SplitFrom(s, i + 1)
         ELSE <<SubSeq(s, i, WordEnd(s, i) - 1)>> \o SplitFrom(s, WordEnd(s, i))

Split(s) == SplitFrom(s, 1)

\* ' '.join(words)
RECURSIVE Join(_)
Join(words) ==
    IF words = <<>> THEN ""
    ELSE IF Len(words) = 1 THEN words[1]
         ELSE words[1] \o " " \o Join(Tail(words))

Range(f) == {f[i] : i \in DOMAIN f}

\* s[i:].startswith(p)
StartsWithAt(s, i, p) == i + Len(p) - 1 <= Len(s) /\ SubSeq(s, i, i + Len(p) - 1) = p

\* \b at the gap before position i (1-based; i = Len(s) + 1 is the end of the text)
WordBoundary(s, i) ==
    LET before == i > 1 /\ IsWordChar(Ch(s, i - 1))
        after == i <= Len(s) /\ IsWordChar(Ch(s, i))
    IN before # after

RECURSIVE SkipDigits(_, _)
SkipDigits(s, i) == IF i <= Len(s) /\ IsDigit(Ch(s, i)) THEN SkipDigits(s, i + 1) ELSE i

RECURSIVE SkipSpaces(_, _)
SkipSpaces(s, i) == IF i <= Len(s) /\ IsSpace(Ch(s, i)) THEN SkipSpaces(s, i + 1) ELSE i

\* re.sub(pattern, repl, s) for a pattern given by its match ends: ends[i] is the
\* position after the match that starts at i, or 0 when none starts there
RECURSIVE SubFrom(_, _, _, _)
SubFrom(s, ends, repl, i) ==
    IF i > Len(s) THEN ""
    ELSE IF ends[i] > 0 THEN repl \o SubFrom(s, ends, repl, ends[i])
         ELSE Ch(s, i) \o SubFrom(s, ends, repl, i + 1)

\* lexicographic order of str
CharLess(c, d) == IndexIn(c, CodePoints) < IndexIn(d, CodePoints)

RECURSIVE StrLess(_, _)
StrLess(s, t) ==
    IF t = "" THEN FALSE
    ELSE IF s = "" THEN TRUE
         ELSE IF Ch(s, 1) = Ch(t, 1) THEN StrLess(Tail(s), Tail(t))
              ELSE CharLess(Ch(s, 1), Ch(t, 1))

\* sorted(set_of_str)
RECURSIVE SortedStrings(_)
SortedStrings(S) ==
    IF S = {} THEN <<>>
    ELSE LET m == CHOOSE x \in S : \A y \in S \ {x} : StrLess(x, y)
         IN <<m>> \o SortedStrings(S \ {m})

(***************************************************************************)
(* src/src/matcher.py: normalization for MatchingEngine.                    *)
(***************************************************************************)
ABBREVIATIONS ==
    << <<"unslt", "unsalted">>, <<"gralic", "garlic">>, <<"jeera", "cumin">>,
       <<"cumin", "cumin">>, <<"ml", "milliliter">>, <<"l", "liter">>,
       <<"kg", "kilogram">>, <<"g", "gram">>, <<"oz", "ounce">>, <<"lb", "pound">> >>

STOP_WORDS ==
    { "a", "an", "and", "the", "is", "are", "of", "to", "in", "for",
      "pack", "pck", "box", "tin", "can", "jar", "bag", "bottle",
      "red", "white", "green", "brown", "whole", "ground", "fresh",
      "dried", "frozen", "organic", "extra", "virgin", "full", "low",
      "high", "long", "short", "grain", "peeled", "sliced", "diced" }

\* the alternation of remove_size_info's pattern, in its order
SIZE_UNITS ==
    << "kg", "g", "ml", "l", "oz", "lb", "pack", "box", "pck", "tin", "can", "jar",
       "bag", "bottle" >>

\* text.lower().strip(); [^a-z0-9\s] -> ' '; \s+ -> ' '
normalize_text(text) ==
    LET t == Strip(Lower(text))
        cleaned == LET RECURSIVE Clean(_)
                       Clean(u) ==
                           IF u = "" THEN ""
                           ELSE (IF IsAsciiLowerAlnum(Ch(u, 1)) \/ IsSpace(Ch(u, 1))
                                 THEN Ch(u, 1) ELSE " ") \o Clean(Tail(u))
                   IN Clean(t)
    IN CollapseWhitespace(cleaned)

\* where a match of \d+\s*(kg|g|...)\b that starts at i ends, 0 when none does
SizeInfoMatchEnd(s, i) ==
    IF ~IsDigit(Ch(s, i)) THEN 0
    ELSE LET u == SkipSpaces(s, SkipDigits(s, i))
             ok == {k \in 1..Len(SIZE_UNITS) :
                        /\ StartsWithAt(s, u, SIZE_UNITS[k])
                        /\ WordBoundary(s, u + Len(SIZE_UNITS[k]))}
         IN IF ok = {} THEN 0
            ELSE u + Len(SIZE_UNITS[CHOOSE k \in ok : \A j \in ok : k <= j])

remove_size_info(text) ==
    LET ends == [i \in 1..Len(text) |-> SizeInfoMatchEnd(text, i)]
    IN Strip(CollapseWhitespace(SubFrom(text, ends, "", 1)))

\* ABBREVIATIONS.get(token, token)
Abbreviation(token) ==
    IF \E k \in 1..Len(ABBREVIATIONS) : ABBREVIATIONS[k][1] = token
    THEN ABBREVIATIONS[CHOOSE k \in 1..Len(ABBREVIATIONS) : ABBREVIATIONS[k][1] = token][2]
    ELSE token

expand_abbreviations(text) ==
    LET tokens == Split(text)
    IN Join([i \in 1..Len(tokens) |-> Abbreviation(tokens[i])])

\* (normalized_text, tokens_set)
preprocess_text(text) ==
    LET t == expand_abbreviations(remove_size_info(normalize_text(text)))
    IN [text |-> t, tokens |-> Range(Split(t))]

(***************************************************************************)
(* src/app/preprocessing.py: TextPreprocessor, normalization for           *)
(* FuzzyMatcher.                                                           *)
(***************************************************************************)
TextPreprocessor_STOP_WORDS ==
    { "pack", "g", "kg", "ml", "l", "liter", "gram",
      "and", "or", "the", "a", "an", "is", "in", "of",
      "full", "extra", "virgin", "unsalted", "unslt",
      "plain", "long", "grain", "red", "white", "peeled" }

\* the alternation of UNIT_PATTERNS[0], in its order
UNIT_PATTERNS == << "kg", "g", "ml", "l", "liter", "litre", "pound", "oz", "pcs", "piece" >>

CORRECTIONS ==
    << <<"gralic", "garlic">>, <<"garic", "garlic">>, <<"jeera", "cumin">>,
       <<"jira", "cumin">> >>

\* unicodedata.normalize('NFD', c) with the combining marks (category Mn) dropped
StripAccent(c) == IF c = "é" THEN "e" ELSE c

\* where a match of \d+\s*(kg|g|ml|l|...) that starts at i ends, 0 when none does:
\* no \b closes the pattern, and the first alternative that fits is taken
UnitMatchEnd(s, i) ==
    IF ~IsDigit(Ch(s, i)) THEN 0
    ELSE LET u == SkipSpaces(s, SkipDigits(s, i))
             ok == {k \in 1..Len(UNIT_PATTERNS) : StartsWithAt(s, u, UNIT_PATTERNS[k])}
         IN IF ok = {} THEN 0
            ELSE u + Len(UNIT_PATTERNS[CHOOSE k \in ok : \A j \in ok : k <= j])

\* where a match of \(.*?\) that starts at i ends, 0 when none does
ParenMatchEnd(s, i) ==
    IF Ch(s, i) # "(" THEN 0
    ELSE LET closes == {j \in (i + 1)..Len(s) : Ch(s, j) = ")"}
         IN IF closes = {} THEN 0 ELSE (CHOOSE j \in closes : \A k \in closes : j <= k) + 1

TextPreprocessor_normalize_text(text) ==
    IF text = "" THEN ""
    ELSE LET t == Strip(Lower(text))
             folded == LET RECURSIVE Fold(_)
                           Fold(u) == IF u = "" THEN "" ELSE StripAccent(Ch(u, 1)) \o Fold(Tail(u))
                       IN Fold(t)
             cleaned == LET RECURSIVE Clean(_)
                            Clean(u) ==
                                IF u = "" THEN ""
                                ELSE (IF IsAsciiLowerAlnum(Ch(u, 1)) \/ IsSpace(Ch(u, 1))
                                      THEN Ch(u, 1) ELSE " ") \o Clean(Tail(u))
                        IN Clean(folded)
             units == SubFrom(cleaned, [i \in 1..Len(cleaned) |-> UnitMatchEnd(cleaned, i)], "", 1)
             parens == SubFrom(units, [i \in 1..Len(units) |-> ParenMatchEnd(units, i)], "", 1)
         IN Strip(CollapseWhitespace(parens))

\* text.split() without the stop words and the one-character tokens
tokenize(text) ==
    SelectSeq(Split(text), LAMBDA t : t \notin TextPreprocessor_STOP_WORDS /\ Len(t) > 1)

\* where a match of \bword\b that starts at i ends, 0 when none does
WholeWordMatchEnd(s, i, word) ==
    IF StartsWithAt(s, i, word) /\ WordBoundary(s, i) /\ WordBoundary(s, i + Len(word))
    THEN i + Len(word) ELSE 0

RECURSIVE ApplyCorrections(_, _)
ApplyCorrections(text, k) ==
    IF k > Len(CORRECTIONS) THEN text
    ELSE ApplyCorrections(
             SubFrom(text,
                     [i \in 1..Len(text) |-> WholeWordMatchEnd(text, i, CORRECTIONS[k][1])],
                     CORRECTIONS[k][2], 1),
             k + 1)

correct_misspellings(text) == ApplyCorrections(text, 1)

preprocess(text) == correct_misspellings(TextPreprocessor_normalize_text(text))

get_tokens(text) == Range(tokenize(preprocess(text)))

(***************************************************************************)
(* src/app/processing.py: normalize, normalization for Matcher.            *)
(***************************************************************************)
\* the alternation of SIZE_REGEX, in its order
SIZE_REGEX_UNITS ==
    << "kg", "g", "mg", "l", "ml", "cl", "oz", "lb", "pack", "can", "bottle", "bunch",
       "ea", "pc", "tbl", "tsp" >>

\* the dict's items in insertion order, which is the order normalize walks them in
SYNONYM_MAP ==
    << <<"tomatoes", "tomato">>,
       <<"onion", "onion">>,
       <<"gralic", "garlic">>,
       <<"milk full cream", "whole milk">>,
       <<"extra virgin olive oil", "olive oil">>,
       <<"jeera", "cumin">>,
       <<"jeera seeds", "cumin seeds">>,
       <<"white sugar", "granulated sugar">>,
       <<"plain flour", "all-purpose flour">>,
       <<"unslt", "unsalted">>,
       <<"butter unslt", "unsalted butter">>,
       <<"rice long grain", "white rice">> >>

CUSTOM_STOP_WORDS ==
    { "extra", "virgin", "peeled", "red", "full", "cream", "plain", "white",
      "long", "grain", "unsl", "unslt", "pack", "g", "kg", "l", "ml" }

\* nltk's stopwords.words('english'), the entries that survive PUNCT_REGEX
\* (those with an apostrophe can never be a token)
NLTK_STOP_WORDS ==
    { "i", "me", "my", "myself", "we", "our", "ours", "ourselves", "you", "your",
      "yours", "yourself", "yourselves", "he", "him", "his", "himself", "she", "her",
      "hers", "herself", "it", "its", "itself", "they", "them", "their", "theirs",
      "themselves", "what", "which", "who", "whom", "this", "that", "these", "those",
      "am", "is", "are", "was", "were", "be", "been", "being", "have", "has", "had",
      "having", "do", "does", "did", "doing", "a", "an", "the", "and", "but", "if",
      "or", "because", "as", "until", "while", "of", "at", "by", "for", "with",
      "about", "against", "between", "into", "through", "during", "before", "after",
      "above", "below", "to", "from", "up", "down", "in", "out", "on", "off", "over",
      "under", "again", "further", "then", "once", "here", "there", "when", "where",
      "why", "how", "all", "any", "both", "each", "few", "more", "most", "other",
      "some", "such", "no", "nor", "not", "only", "own", "same", "so", "than", "too",
      "very", "s", "t", "can", "will", "just", "don", "should", "now", "d", "ll", "m",
      "o", "re", "ve", "y", "ain", "aren", "couldn", "didn", "doesn", "hadn", "hasn",
      "haven", "isn", "ma", "mightn", "mustn", "needn", "shan", "shouldn", "wasn",
      "weren", "won", "wouldn" }

processing_STOP_WORDS == NLTK_STOP_WORDS \cup CUSTOM_STOP_WORDS

\* WordNetLemmatizer().lemmatize(t) (noun lemmas) on the plural forms the model's
\* texts hold; every other token is its own lemma
WORDNET_LEMMAS ==
    << <<"tomatoes", "tomato">>, <<"seeds", "seed">>, <<"onions", "onion">>,
       <<"oils", "oil">>, <<"packs", "pack">>, <<"cans", "can">>,
       <<"grains", "grain">>, <<"creams", "cream">>, <<"others", "other">>,
       <<"cumins", "cumin">>, <<"garlics", "garlic">>, <<"sugars", "sugar">>,
       <<"flours", "flour">>, <<"butters", "butter">>, <<"olives", "olive">> >>

lemmatize(t) ==
    IF \E k \in 1..Len(WORDNET_LEMMAS) : WORDNET_LEMMAS[k][1] = t
    THEN WORDNET_LEMMAS[CHOOSE k \in 1..Len(WORDNET_LEMMAS) : WORDNET_LEMMAS[k][1] = t][2]
    ELSE t

\* word_tokenize(text) on a text that PUNCT_REGEX has left only \w and \s in
word_tokenize(text) == Split(text)

\* k in text
Contains(text, k) == \E i \in 1..Len(text) : StartsWithAt(text, i, k)

\* text.replace(k, v)
Replace(text, k, v) ==
    SubFrom(text, [i \in 1..Len(text) |-> IF StartsWithAt(text, i, k) THEN i + Len(k) ELSE 0],
            v, 1)

\* the loop over SYNONYM_MAP.items() from its k-th item on: the text it leaves
RECURSIVE ApplySynonyms(_, _)
ApplySynonyms(text, k) ==
    IF k > Len(SYNONYM_MAP) THEN text
    ELSE ApplySynonyms(IF Contains(text, SYNONYM_MAP[k][1])
                       THEN Replace(text, SYNONYM_MAP[k][1], SYNONYM_MAP[k][2])
                       ELSE text,
                       k + 1)

\* the same loop: the keys whose replacement ran, in the order they ran
RECURSIVE SynonymsApplied(_, _)
SynonymsApplied(text, k) ==
    IF k > Len(SYNONYM_MAP) THEN <<>>
    ELSE IF Contains(text, SYNONYM_MAP[k][1])
         THEN <<SYNONYM_MAP[k][1]>>
                  \o SynonymsApplied(Replace(text, SYNONYM_MAP[k][1], SYNONYM_MAP[k][2]), k + 1)
         ELSE SynonymsApplied(text, k + 1)

\* where a match of \b\d+[\.,]?\d*\s*(kg|g|...)\b that starts at i ends, 0 when none
SizeRegexMatchEnd(s, i) ==
    IF ~(IsDigit(Ch(s, i)) /\ WordBoundary(s, i)) THEN 0
    ELSE LET p == SkipDigits(s, i)
             q == IF p <= Len(s) /\ Ch(s, p) \in {".", ","} THEN SkipDigits(s, p + 1) ELSE p
             u == SkipSpaces(s, q)
             ok == {k \in 1..Len(SIZE_REGEX_UNITS) :
                        /\ StartsWithAt(s, u, SIZE_REGEX_UNITS[k])
                        /\ WordBoundary(s, u + Len(SIZE_REGEX_UNITS[k]))}
         IN IF ok = {} THEN 0
            ELSE u + Len(SIZE_REGEX_UNITS[CHOOSE k \in ok : \A j \in ok : k <= j])

\* str.isdigit()
IsDigitString(t) == t # "" /\ \A i \in 1..Len(t) : IsDigit(Ch(t, i))

normalize(text) ==
    LET lowered == Lower(text)
        synonyms == ApplySynonyms(lowered, 1)
        sized == SubFrom(synonyms,
                         [i \in 1..Len(synonyms) |-> SizeRegexMatchEnd(synonyms, i)], " ", 1)
        punct == LET RECURSIVE Clean(_)
                     Clean(u) ==
                         IF u = "" THEN ""
                         ELSE (IF IsWordChar(Ch(u, 1)) \/ IsSpace(Ch(u, 1))
                               THEN Ch(u, 1) ELSE " ") \o Clean(Tail(u))
                 IN Clean(sized)
        tokens == word_tokenize(punct)
        kept == SelectSeq(tokens, LAMBDA t : /\ t \notin processing_STOP_WORDS
                                             /\ Len(t) > 1
                                             /\ ~IsDigitString(t))
        lemmatized_tokens == [i \in 1..Len(kept) |-> lemmatize(kept[i])]
    IN Join(SortedStrings(Range(lemmatized_tokens)))

(***************************************************************************)
(* Numbers: a float the code computes is kept as the exact fraction        *)
(* <<numerator, denominator>> in lowest terms, denominator > 0.            *)
(***************************************************************************)
RECURSIVE Gcd(_, _)
Gcd(a, b) == IF b = 0 THEN a ELSE Gcd(b, a % b)

Frac(n, d) == LET g == Gcd(n, d) IN IF n = 0 THEN <<0, 1>> ELSE <<n \div g, d \div g>>

Zero == <<0, 1>>

One == <<1, 1>>

FracLess(p, q) == p[1] * q[2] < q[1] * p[2]

FracLeq(p, q) == p[1] * q[2] <= q[1] * p[2]

FracMax(p, q) == IF FracLess(p, q) THEN q ELSE p

\* round(x, 4): the nearest multiple of 1/10000, a tie going to the even one
Round4(p) ==
    LET scaled == p[1] * 10000
        lo == scaled \div p[2]
        twice == 2 * (scaled % p[2])
        up == twice > p[2] \/ (twice = p[2] /\ lo % 2 = 1)
    IN Frac(IF up THEN lo + 1 ELSE lo, 10000)

(***************************************************************************)
(* difflib.SequenceMatcher(None, a, b).ratio(), for texts under 200        *)
(* characters (no element is ever "popular", nothing is junk).             *)
(***************************************************************************)
\* how far a[i..ahi] and b[j..bhi] agree from their starts
RECURSIVE CommonRun(_, _, _, _, _, _)
CommonRun(a, i, ahi, b, j, bhi) ==
    IF i <= ahi /\ j <= bhi /\ Ch(a, i) = Ch(b, j)
    THEN 1 + CommonRun(a, i + 1, ahi, b, j + 1, bhi)
    ELSE 0

\* find_longest_match: <<i, j, size>> of the longest block a[i..] = b[j..] inside
\* a[alo..ahi] and b[blo..bhi]; of the longest, the one starting earliest in a, and
\* of those the one starting earliest in b; size 0 when no character is shared
find_longest_match(a, b, alo, ahi, blo, bhi) ==
    LET starts == {c \in (alo..ahi) \X (blo..bhi) : Ch(a, c[1]) = Ch(b, c[2])}
        blocks == {<<c[1], c[2], CommonRun(a, c[1], ahi, b, c[2], bhi)>> : c \in starts}
    IN IF blocks = {} THEN <<alo, blo, 0>>
       ELSE CHOOSE m \in blocks :
                \A n \in blocks :
                    \/ m[3] > n[3]
                    \/ m[3] = n[3] /\ m[1] < n[1]
                    \/ m[3] = n[3] /\ m[1] = n[1] /\ m[2] <= n[2]

\* get_matching_blocks, summed: the characters matched inside the two ranges
RECURSIVE MatchedChars(_, _, _, _, _, _)
MatchedChars(a, b, alo, ahi, blo, bhi) ==
    IF alo > ahi \/ blo > bhi THEN 0
    ELSE LET m == find_longest_match(a, b, alo, ahi, blo, bhi)
         IN IF m[3] = 0 THEN 0
            ELSE m[3] + MatchedChars(a, b, alo, m[1] - 1, blo, m[2] - 1)
                      + MatchedChars(a, b, m[1] + m[3], ahi, m[2] + m[3], bhi)

\* ratio(): 2.0 * matches / (len(a) + len(b)), and 1.0 for two empty texts
SequenceRatio(a, b) ==
    IF Len(a) + Len(b) = 0 THEN One
    ELSE Frac(2 * MatchedChars(a, b, 1, Len(a), 1, Len(b)), Len(a) + Len(b))

(***************************************************************************)
(* src/src/matcher.py: the similarity metrics of MatchingEngine.           *)
(***************************************************************************)
levenshtein_similarity(s1, s2) ==
    IF Len(s1) = 0 /\ Len(s2) = 0 THEN One ELSE SequenceRatio(s1, s2)

\* the loop that counts the shared leading characters, at most 4
RECURSIVE PrefixLen(_, _, _)
PrefixLen(s1, s2, i) ==
    IF i <= Len(s1) /\ i <= Len(s2) /\ i <= 4 /\ Ch(s1, i) = Ch(s2, i)
    THEN 1 + PrefixLen(s1, s2, i + 1)
    ELSE 0

\* base_sim + 0.1 * prefix_len * (1 - base_sim)
\* a prefix bonus that is added whole, not scaled by the gap to 1.0
jaro_winkler_unscaled(s1, s2) ==
    LET base_sim == SequenceRatio(s1, s2)
        prefix_len == PrefixLen(s1, s2, 1)
    IN Frac(10 * base_sim[1] + prefix_len * base_sim[2], 10 * base_sim[2])

jaro_winkler_similarity(s1, s2) ==
    LET base_sim == SequenceRatio(s1, s2)
        prefix_len == PrefixLen(s1, s2, 1)
    IN Frac(10 * base_sim[1] + prefix_len * (base_sim[2] - base_sim[1]), 10 * base_sim[2])

(***************************************************************************)
(* src/src/matcher.py: TF-IDF.  A vector is [den, w]: the weight of term t  *)
(* is w[t] / den with den = len(tokens) and w[t] = freq(t) * idf(t), idf    *)
(* being math.log in hundredths.                                           *)
(***************************************************************************)
\* math.log(n / d) in hundredths, for the document counts a catalog here can give
\* a smoothed weight, math.log(1 + n / d) in hundredths, which is not 0 for a term
\* that every document holds
LogHundredths_smoothed(n, d) == 69 + (100 * (n - d)) \div n

LogHundredths(n, d) ==
    LET g == Gcd(n, d)
        r == <<n \div g, d \div g>>
    IN CASE r = <<1, 1>> -> 0
         [] r = <<2, 1>> -> 69
         [] r = <<3, 1>> -> 110
         [] r = <<3, 2>> -> 41
         [] r = <<4, 1>> -> 139
         [] r = <<4, 3>> -> 29
         [] r = <<5, 1>> -> 161
         [] r = <<5, 2>> -> 92
         [] r = <<5, 3>> -> 51
         [] r = <<5, 4>> -> 22
         [] OTHER -> (100 * (r[1] - r[2])) \div r[1]

\* the number of items of the list equal to t
Count(list, t) == Cardinality({i \in 1..Len(list) : list[i] = t})

\* texts: a list of normalized texts.  The result maps each text to its vector.
build_tfidf_vectors(texts, stop_words) ==
    LET num_docs == Len(texts)
        doc_freqs(token) ==
            Cardinality({i \in 1..num_docs : token \in Range(Split(texts[i])) \ stop_words})
        Vector(text) ==
            LET tokens == Split(text)
                terms == Range(tokens) \ stop_words
            IN [den |-> Len(tokens),
                w |-> [t \in terms |-> Count(tokens, t) * LogHundredths(num_docs, doc_freqs(t))]]
    IN [text \in Range(texts) |-> Vector(text)]

RECURSIVE SumOver(_, _)
SumOver(f, S) ==
    IF S = {} THEN 0 ELSE LET k == CHOOSE k \in S : TRUE IN f[k] + SumOver(f, S \ {k})

\* the largest r with r * r <= n
RECURSIVE ISqrtBetween(_, _, _)
ISqrtBetween(n, lo, hi) ==
    IF lo = hi THEN lo
    ELSE LET mid == (lo + hi + 1) \div 2
         IN IF mid * mid <= n THEN ISqrtBetween(n, mid, hi) ELSE ISqrtBetween(n, lo, mid - 1)

ISqrt(n) == ISqrtBetween(n, 0, IF n < 46340 THEN n ELSE 46340)

\* dot / (norm1 * norm2), 0.0 when a norm is 0; exact when norm1 * norm2 is rational,
\* else cut to thousandths
tfidf_similarity(vec1, vec2) ==
    LET keys1 == DOMAIN vec1.w
        keys2 == DOMAIN vec2.w
        dot == SumOver([k \in keys1 \cap keys2 |-> vec1.w[k] * vec2.w[k]], keys1 \cap keys2)
        sq1 == SumOver([k \in keys1 |-> vec1.w[k] * vec1.w[k]], keys1)
        sq2 == SumOver([k \in keys2 |-> vec2.w[k] * vec2.w[k]], keys2)
    IN IF sq1 = 0 \/ sq2 = 0 THEN Zero
       ELSE LET g == Gcd(sq1, sq2)
                r1 == ISqrt(sq1 \div g)
                r2 == ISqrt(sq2 \div g)
            IN IF r1 * r1 = sq1 \div g /\ r2 * r2 = sq2 \div g
               THEN Frac(dot, g * r1 * r2)
               ELSE Frac((dot * 1000) \div (ISqrt(sq1) * ISqrt(sq2)), 1000)

(***************************************************************************)
(* src/src/matcher.py: blocking and MatchingEngine.                        *)
(***************************************************************************)
\* the confidence under which MatchingEngine.match logs a warning
MIN_CONFIDENCE_THRESHOLD == Frac(3, 5)

MIN_SHARED_TOKENS == 2

MIN_SHARED_TOKENS_SINGLE == 1

\* Identifiers as the engines return them: an int, a str, or None
None == <<"None">>

IntId(n) == <<"int", n>>

StrId(n) == <<"str", n>>

\* load_master_ingredients: one Ingredient per row, normalized once
load_master_ingredients(rows) ==
    [i \in 1..Len(rows) |->
        LET p == preprocess_text(rows[i].name)
        IN [ingredient_id |-> rows[i].ingredient_id, name |-> rows[i].name,
            normalized_name |-> p.text, tokens |-> p.tokens]]

\* load_supplier_items / match_item: the SupplierItem of a raw name
SupplierItem(raw_name) ==
    LET p == preprocess_text(raw_name)
    IN [raw_name |-> raw_name, normalized_name |-> p.text, tokens |-> p.tokens]

\* a blocking rule that asks one shared token of every ingredient
get_blocking_candidates_one_token(supplier_item, ingredient_list) ==
    SelectSeq([i \in 1..Len(ingredient_list) |-> i],
              LAMBDA i : supplier_item.tokens \cap ingredient_list[i].tokens # {})

\* the positions, in list order, of the ingredients that pass the blocking rule
get_blocking_candidates(supplier_item, ingredient_list) ==
    SelectSeq([i \in 1..Len(ingredient_list) |-> i],
              LAMBDA i :
                  LET min_tokens == IF Cardinality(ingredient_list[i].tokens) = 1
                                    THEN MIN_SHARED_TOKENS_SINGLE ELSE MIN_SHARED_TOKENS
                      shared_tokens == supplier_item.tokens \cap ingredient_list[i].tokens
                  IN Cardinality(shared_tokens) >= min_tokens)

\* MatchingEngine.__init__: self.tfidf_map
MatchingEngine_tfidf_map(ingredient_list) ==
    build_tfidf_vectors([i \in 1..Len(ingredient_list) |-> ingredient_list[i].normalized_name],
                        STOP_WORDS)

compute_similarity(supplier_normalized, ingredient, map) ==
    LET lev_sim == levenshtein_similarity(supplier_normalized, ingredient.normalized_name)
        jw_sim == jaro_winkler_similarity(supplier_normalized, ingredient.normalized_name)
        supplier_vector ==
            build_tfidf_vectors(<<supplier_normalized>>, STOP_WORDS)[supplier_normalized]
        ingredient_vector == map[ingredient.normalized_name]
        tfidf_sim == tfidf_similarity(supplier_vector, ingredient_vector)
    IN FracMax(FracMax(lev_sim, jw_sim), tfidf_sim)

\* max(scores, key=lambda x: (x[1], x[0].ingredient_id)): the first item of the list
\* whose key no other item's key exceeds
MaxByScoreAndId(scores) ==
    LET KeyLess(p, q) ==
            \/ FracLess(p.sim, q.sim)
            \/ p.sim = q.sim /\ p.ingredient.ingredient_id < q.ingredient.ingredient_id
        best == {i \in 1..Len(scores) : \A j \in 1..Len(scores) : ~KeyLess(scores[i], scores[j])}
    IN scores[CHOOSE i \in best : \A j \in best : i <= j]

MatchingEngine_match(supplier_item, ingredient_list, map) ==
    LET candidates == get_blocking_candidates(supplier_item, ingredient_list)
        scores == [k \in 1..Len(candidates) |->
                      [ingredient |-> ingredient_list[candidates[k]],
                       sim |-> compute_similarity(supplier_item.normalized_name,
                                                  ingredient_list[candidates[k]], map)]]
        best == MaxByScoreAndId(scores)
    IN IF candidates = <<>>
       THEN [ingredient_id |-> None, confidence |-> Zero, candidates |-> candidates]
       ELSE [ingredient_id |-> IntId(best.ingredient.ingredient_id),
             confidence |-> Round4(best.sim), candidates |-> candidates]

(***************************************************************************)
(* src/app/matcher.py: BlockingIndex and FuzzyMatcher.  Positions in the    *)
(* ingredient list are counted from 1.                                     *)
(***************************************************************************)
\* name[:prefix_len] for prefix_len in [2, 3] when len(name) >= prefix_len
Prefixes(name) == {SubSeq(name, 1, prefix_len) : prefix_len \in {n \in {2, 3} : Len(name) >= n}}

Positions(list) == [i \in 1..Len(list) |-> i]

_build_prefix_index(ingredient_list) ==
    LET names == [i \in 1..Len(ingredient_list) |-> preprocess(ingredient_list[i].name)]
        keys == UNION {Prefixes(names[i]) : i \in 1..Len(names)}
    IN [prefix \in keys |->
           SelectSeq(Positions(ingredient_list), LAMBDA idx : prefix \in Prefixes(names[idx]))]

_build_token_index(ingredient_list) ==
    LET tokens == [i \in 1..Len(ingredient_list) |-> get_tokens(ingredient_list[i].name)]
        keys == UNION {tokens[i] : i \in 1..Len(tokens)}
    IN [token \in keys |->
           SelectSeq(Positions(ingredient_list), LAMBDA idx : token \in tokens[idx])]

\* list(candidates_set): a set of small integers is listed in ascending order
RECURSIVE ListOfSet(_)
ListOfSet(S) ==
    IF S = {} THEN <<>>
    ELSE LET m == CHOOSE m \in S : \A o \in S : m <= o IN <<m>> \o ListOfSet(S \ {m})

DEFAULT_MAX_CANDIDATES == 50

get_candidates(query, max_candidates, ingredient_list, pindex, tindex) ==
    LET normalized_query == preprocess(query)
        by_prefix == UNION {Range(pindex[prefix]) :
                               prefix \in Prefixes(normalized_query) \cap DOMAIN pindex}
        query_tokens == get_tokens(query)
        by_token == UNION {Range(tindex[token]) : token \in query_tokens \cap DOMAIN tindex}
        candidates_set == IF by_prefix \cup by_token = {}
                          THEN 1..Len(ingredient_list)
                          ELSE by_prefix \cup by_token
        listed == ListOfSet(candidates_set)
    IN SubSeq(listed, 1, IF Len(listed) < max_candidates THEN Len(listed) ELSE max_candidates)

\* a token-set measure that is 0.0 whenever the union is empty
token_set_similarity_by_union(text1, text2) ==
    LET tokens1 == get_tokens(text1)
        tokens2 == get_tokens(text2)
    IN IF tokens1 \cup tokens2 = {} THEN Zero
       ELSE Frac(Cardinality(tokens1 \cap tokens2), Cardinality(tokens1 \cup tokens2))

token_set_similarity(text1, text2) ==
    LET tokens1 == get_tokens(text1)
        tokens2 == get_tokens(text2)
    IN IF tokens1 = {} /\ tokens2 = {} THEN One
       ELSE IF tokens1 = {} \/ tokens2 = {} THEN Zero
       ELSE Frac(Cardinality(tokens1 \cap tokens2), Cardinality(tokens1 \cup tokens2))

string_similarity(text1, text2) ==
    LET norm1 == preprocess(text1)
        norm2 == preprocess(text2)
    IN IF norm1 = norm2 THEN One
       ELSE IF norm1 = "" \/ norm2 = "" THEN Zero
       ELSE SequenceRatio(norm1, norm2)

\* (0.6 * token_sim) + (0.4 * string_sim)
Blend(token_sim, string_sim) ==
    Frac(3 * token_sim[1] * string_sim[2] + 2 * string_sim[1] * token_sim[2],
         5 * token_sim[2] * string_sim[2])

combined_similarity(query, candidate) ==
    Blend(token_set_similarity(query, candidate), string_similarity(query, candidate))

\* a loop that keeps the highest score but gives the id up when that score is
\* under WEAK_THRESHOLD = 0.50
MatchSingleLoop_id_above_weak(ingredient_list, candidate_indices, score) ==
    LET best == {k \in 1..Len(candidate_indices) :
                    \A j \in 1..Len(candidate_indices) : FracLeq(score[j], score[k])}
    IN IF best = {}
       THEN [ingredient_id |-> IntId(-1), confidence |-> Zero, candidates |-> candidate_indices]
       ELSE LET k == CHOOSE k \in best : \A j \in best : k <= j
            IN [ingredient_id |-> IF FracLess(score[k], Frac(1, 2)) THEN IntId(-1)
                                  ELSE IntId(ingredient_list[candidate_indices[k]].ingredient_id),
                confidence |-> score[k], candidates |-> candidate_indices]

\* the loop of match_single: best_score starts at 0.0 and only a greater score
\* replaces it, so the first candidate of the highest score wins if that score is
\* above 0.0, and (-1, 0.0) stays otherwise
MatchSingleLoop(ingredient_list, candidate_indices, score) ==
    LET first_best == {k \in 1..Len(candidate_indices) :
                          /\ FracLess(Zero, score[k])
                          /\ \A j \in 1..Len(candidate_indices) :
                                 IF j < k THEN FracLess(score[j], score[k])
                                 ELSE FracLeq(score[j], score[k])}
    IN IF first_best = {}
       THEN [ingredient_id |-> IntId(-1), confidence |-> Zero, candidates |-> candidate_indices]
       ELSE LET k == CHOOSE k \in first_best : TRUE
            IN [ingredient_id |-> IntId(ingredient_list[candidate_indices[k]].ingredient_id),
                confidence |-> score[k], candidates |-> candidate_indices]

MatchSingleScores(query, ingredient_list, candidate_indices) ==
    MatchSingleLoop(ingredient_list, candidate_indices,
                    [k \in 1..Len(candidate_indices) |->
                        combined_similarity(query, ingredient_list[candidate_indices[k]].name)])

match_single(query, ingredient_list, pindex, tindex) ==
    IF query = "" \/ Strip(query) = ""
    THEN [ingredient_id |-> IntId(-1), confidence |-> Zero, candidates |-> <<>>]
    ELSE MatchSingleScores(query, ingredient_list,
                           get_candidates(query, DEFAULT_MAX_CANDIDATES, ingredient_list,
                                          pindex, tindex))

\* a batch whose results come back last query first
match_batch_reversed(query_list, ingredient_list, pindex, tindex) ==
    [i \in 1..Len(query_list) |->
        match_single(query_list[Len(query_list) + 1 - i], ingredient_list, pindex, tindex)]

match_batch(query_list, ingredient_list, pindex, tindex) ==
    [i \in 1..Len(query_list) |-> match_single(query_list[i], ingredient_list, pindex, tindex)]

(***************************************************************************)
(* fuzzywuzzy.fuzz.token_set_ratio, as src/app/matching.py calls it, with   *)
(* difflib for the character ratio.                                        *)
(***************************************************************************)
\* utils.full_process(s, force_ascii=True)
RECURSIVE FullProcessChars(_)
FullProcessChars(s) ==
    IF s = "" THEN ""
    ELSE (IF Ch(s, 1) = "é" THEN ""
          ELSE IF IsWordChar(Ch(s, 1)) THEN Ch(s, 1) ELSE " ") \o FullProcessChars(Tail(s))

full_process(s) == Strip(Lower(FullProcessChars(s)))

\* utils.intr(100 * r): int(round(.)), halves to the even integer
intr100(r) ==
    LET scaled == 100 * r[1]
        lo == scaled \div r[2]
        twice == 2 * (scaled % r[2])
    IN IF twice > r[2] \/ (twice = r[2] /\ lo % 2 = 1) THEN lo + 1 ELSE lo

\* fuzz.ratio
fuzz_ratio(s1, s2) ==
    IF s1 = s2 THEN 100
    ELSE IF s1 = "" \/ s2 = "" THEN 0
    ELSE intr100(SequenceRatio(s1, s2))

Max3(a, b, c) == LET ab == IF a < b THEN b ELSE a IN IF ab < c THEN c ELSE ab

token_set_ratio(s1, s2) ==
    LET p1 == full_process(s1)
        p2 == full_process(s2)
        tokens1 == Range(Split(p1))
        tokens2 == Range(Split(p2))
        sorted_sect == Join(SortedStrings(tokens1 \cap tokens2))
        sorted_1to2 == Join(SortedStrings(tokens1 \ tokens2))
        sorted_2to1 == Join(SortedStrings(tokens2 \ tokens1))
        combined_1to2 == Strip(sorted_sect \o " " \o sorted_1to2)
        combined_2to1 == Strip(sorted_sect \o " " \o sorted_2to1)
    IN IF p1 = "" \/ p2 = "" THEN 0
       ELSE Max3(fuzz_ratio(sorted_sect, combined_1to2),
                 fuzz_ratio(sorted_sect, combined_2to1),
                 fuzz_ratio(combined_1to2, combined_2to1))

(***************************************************************************)
(* src/app/matching.py: Matcher.  dtype is the type of the ingredient_id    *)
(* column of master_data: "str" after astype(str), "int" as read from CSV.  *)
(***************************************************************************)
Id(dtype, n) == <<dtype, n>>

\* str(ingredient_id)
str(id) == StrId(id[2])

\* master_data with its normalized_name column
Matcher_master_data(rows, dtype) ==
    [i \in 1..Len(rows) |->
        [ingredient_id |-> Id(dtype, rows[i].ingredient_id), name |-> rows[i].name,
         normalized_name |-> normalize(rows[i].name)]]

\* set_index('ingredient_id')['normalized_name'].to_dict(): the last row of an id wins
Matcher_normalized_lookup(master_data) ==
    [id \in {master_data[i].ingredient_id : i \in 1..Len(master_data)} |->
        LET last_row == CHOOSE i \in 1..Len(master_data) :
                            /\ master_data[i].ingredient_id = id
                            /\ \A j \in 1..Len(master_data) :
                                   master_data[j].ingredient_id = id => j <= i
        IN master_data[last_row].normalized_name]

\* an index that lists an entry under the first token of its normalized name only
_build_index_first_token(master_data) ==
    LET tokens == [i \in 1..Len(master_data) |->
                      LET words == Split(master_data[i].normalized_name)
                      IN IF words = <<>> THEN {} ELSE {words[1]}]
        keys == UNION {tokens[i] : i \in 1..Len(tokens)}
    IN [token \in keys |->
           {str(master_data[i].ingredient_id) : i \in {j \in 1..Len(tokens) : token \in tokens[j]}}]

_build_index(master_data) ==
    LET tokens == [i \in 1..Len(master_data) |-> Range(Split(master_data[i].normalized_name))]
        keys == UNION {tokens[i] : i \in 1..Len(tokens)}
    IN [token \in keys |->
           {str(master_data[i].ingredient_id) : i \in {j \in 1..Len(tokens) : token \in tokens[j]}}]

_get_candidates(normalized_query, master_data, idx) ==
    LET query_tokens == Range(Split(normalized_query))
        candidates == UNION {idx[token] : token \in query_tokens \cap DOMAIN idx}
    IN IF query_tokens = {} THEN {}
       ELSE IF candidates = {}
            THEN {str(master_data[i].ingredient_id) : i \in 1..Len(master_data)}
            ELSE candidates

\* self.index[token] on a defaultdict: a missing key is added with an empty set
defaultdict_subscript(idx, token) ==
    [value |-> IF token \in DOMAIN idx THEN idx[token] ELSE {},
     dict |-> [t \in DOMAIN idx \cup {token} |-> IF t \in DOMAIN idx THEN idx[t] ELSE {}]]

\* self.index.get(token, set()): the value of the key or the default, and the
\* dictionary as the call leaves it; get adds no key, also on a defaultdict
defaultdict_get(idx, token) ==
    [value |-> IF token \in DOMAIN idx THEN idx[token] ELSE {}, dict |-> idx]

\* self.index after the lookups of _get_candidates, one for each token of the query:
\* a lookup changes no value, so the keys are those any one lookup leaves
IndexAfterLookups(idx, tokens) ==
    [key \in DOMAIN idx \cup UNION {DOMAIN defaultdict_get(idx, token).dict : token \in tokens} |->
        IF key \in DOMAIN idx THEN idx[key] ELSE {}]

\* Matcher.match: the set of results the loop can end with.  candidate_ids is a set
\* of str, iterated in hash order, and the first candidate of the highest score wins,
\* so each scored candidate of the highest score is a possible result.
Matcher_match_loop(raw_name, master_data, lookup, idx) ==
    LET normalized_query == normalize(raw_name)
        candidate_ids == _get_candidates(normalized_query, master_data, idx)
        no_match == [ingredient_id |-> None, confidence |-> Zero, candidates |-> candidate_ids]
        scored == {ing_id \in candidate_ids : ing_id \in DOMAIN lookup /\ lookup[ing_id] # ""}
        score(ing_id) == token_set_ratio(normalized_query, lookup[ing_id])
        best == {ing_id \in scored : \A o \in scored : score(o) <= score(ing_id)}
    IN IF normalized_query = "" THEN {[no_match EXCEPT !.candidates = {}]}
       ELSE IF candidate_ids = {} \/ scored = {} THEN {no_match}
       ELSE {[ingredient_id |-> ing_id, confidence |-> Frac(score(ing_id), 100),
              candidates |-> candidate_ids] : ing_id \in best}

\* config.py MATCH_THRESHOLD, on the 0..100 scale of token_set_ratio
MATCH_THRESHOLD == 70

\* a match that gives up a best candidate whose score is under the threshold
Matcher_match_above_threshold(raw_name, threshold, master_data, lookup, idx) ==
    {IF FracLess(result.confidence, Frac(threshold, 100))
     THEN [result EXCEPT !.ingredient_id = None, !.confidence = Zero]
     ELSE result : result \in Matcher_match_loop(raw_name, master_data, lookup, idx)}

\* Matcher.match(raw_name, threshold): threshold is accepted and never read
Matcher_match(raw_name, threshold, master_data, lookup, idx) ==
    Matcher_match_loop(raw_name, master_data, lookup, idx)

\* the orders in which a process can iterate a set of these str: the hash of a str
\* is drawn when the interpreter starts
HashOrders(ids) ==
    {order \in [1..Cardinality(ids) -> ids] :
        \A i, j \in 1..Cardinality(ids) : order[i] = order[j] => i = j}

StrIds(rows) == {StrId(rows[i].ingredient_id) : i \in 1..Len(rows)}

\* where the loop over a set in this order reaches an id, 0 for no id
PlaceIn(order, id) ==
    IF \E k \in 1..Len(order) : order[k] = id
    THEN CHOOSE k \in 1..Len(order) : order[k] = id
    ELSE 0

\* an interpreter that iterates a set the other way round on its next use
iteration_order_reversed(order) == [i \in 1..Len(order) |-> order[Len(order) + 1 - i]]

\* for ing_id in candidate_ids: the hash of a str, and with it the order of the
\* set, is the same at every call of one process
iteration_order_after(order) == order

\* Matcher.match in a process of this iteration order: of the results the loop can
\* end with, the one whose candidate the loop reaches first
Matcher_match_in_order(raw_name, threshold, master_data, lookup, idx, order) ==
    CHOOSE result \in Matcher_match(raw_name, threshold, master_data, lookup, idx) :
        \A other \in Matcher_match(raw_name, threshold, master_data, lookup, idx) :
            PlaceIn(order, result.ingredient_id) <= PlaceIn(order, other.ingredient_id)

(***************************************************************************)
(* Inputs.                                                                 *)
(***************************************************************************)
\* the longest master list drawn from Names
MaxCatalog == 2

\* the longest batch of queries
MaxBatch == 2

Names == {"Tomato", "tomato", "Olive Oil", "1kg"}

\* the master list of the tests and of the spec's scenarios
SCENARIO_CATALOG ==
    <<[ingredient_id |-> 1, name |-> "Tomato"], [ingredient_id |-> 2, name |-> "Onion"],
      [ingredient_id |-> 3, name |-> "Garlic"]>>

\* Names in the order master lists draw them
NameList == <<"Tomato", "tomato", "Olive Oil", "1kg">>

\* master lists of distinct names with unique ids, listed by ascending or by
\* descending id
Catalogs ==
    {SCENARIO_CATALOG} \cup
    UNION {{[i \in 1..n |-> [ingredient_id |-> IF ascending THEN i ELSE n + 1 - i,
                             name |-> NameList[pick[i]]]] :
               pick \in {f \in [1..n -> 1..Len(NameList)] :
                             \A i, j \in 1..n : i < j => f[i] < f[j]},
               ascending \in BOOLEAN} : n \in 1..MaxCatalog}

Queries ==
    Names \cup {"Onion", "Garlic", "", "  ", "1kg pack", "xyz unknown", "qqq", "oil",
                "olive oil extra", "tomato oil", "TOMATOES 1kg pack",
                "gralic peeled 100g"}

BatchQueries == {"tomato", "", "xyz unknown", "oil"}

\* a master list with two names of one normal form
DUPLICATE_CATALOG ==
    <<[ingredient_id |-> 1, name |-> "Tomato"], [ingredient_id |-> 2, name |-> "tomato"],
      [ingredient_id |-> 3, name |-> "Olive Oil"]>>

BatchCatalogs == {SCENARIO_CATALOG, DUPLICATE_CATALOG}

\* the most words of a text handed to a normalizer
MaxWords == 2

NormWords ==
    {"white", "sugar", "jeera", "seeds", "butter", "unslt", "packs", "pack", "1-1kg", "1kg",
     "1", "1kgg"}

\* the texts of test_preprocess_complex, of bare box and can words, and of a number
\* before a word that starts with a unit
SCENARIO_TEXTS == {"TOMATO 1kg PACK", "tomato box", "can tomato", "1 lemon", "2 garlic"}

Texts ==
    {Join(words) : words \in UNION {[1..n -> NormWords] : n \in 0..MaxWords}}
        \cup SCENARIO_TEXTS

Batches == UNION {[1..n -> BatchQueries] : n \in 0..MaxBatch}

Engines == {"MatchingEngine", "FuzzyMatcher", "Matcher"}

NoCall == [call |-> "none"]

(***************************************************************************)
(* State.                                                                  *)
(***************************************************************************)
VARIABLES
    engine,             \* the engine class this process has built
    ingredients,        \* MatchingEngine.ingredients / FuzzyMatcher.ingredients
    tfidf_map,          \* MatchingEngine.tfidf_map
    prefix_index,       \* BlockingIndex.prefix_index
    token_index,        \* BlockingIndex.token_index
    master_data,        \* Matcher.master_data
    normalized_lookup,  \* Matcher.normalized_lookup
    index,              \* Matcher.index
    last,               \* the match call that has not returned yet: its query and result
    queries,            \* the batch handed to match_batch / run_pipeline
    results,            \* the results of the batch so far
    batch_pc,           \* where the batch is: "ready", "running" or "done"
    raw,                \* a text handed to a normalizer
    norm,               \* what the normalizer returned for raw
    renorm,             \* what the normalizer returned for its own output
    blocked,            \* the get_candidates call that has not returned yet
    service,            \* the service module this process runs
    service_pc,         \* where the service is in its life
    master_file,        \* the master file the service finds at startup
    building,           \* the engine object whose constructor is running
    response,           \* the answer to the POST /match that is being sent
    hash_order,         \* the order in which this process iterates a set of str ids
    returned            \* what the first call for each query returned

engineVars ==
    <<engine, ingredients, tfidf_map, prefix_index, token_index, master_data,
      normalized_lookup, index>>

batchVars == <<queries, results, batch_pc>>

normVars == <<raw, norm, renorm>>

blockVars == <<blocked>>

serviceVars == <<service, service_pc, master_file, building, response>>

repeatVars == <<hash_order, returned>>

vars == <<engineVars, last, batchVars, normVars, blockVars, serviceVars, repeatVars>>

\* the state after MatchingEngine(load_master_ingredients(rows)), FuzzyMatcher(rows)
\* or Matcher(rows as a frame whose id column has the given dtype)
Constructed(e, rows, dtype) ==
    /\ engine = e
    /\ ingredients = CASE e = "MatchingEngine" -> load_master_ingredients(rows)
                       [] e = "FuzzyMatcher" -> rows
                       [] OTHER -> <<>>
    /\ tfidf_map = IF e = "MatchingEngine"
                   THEN MatchingEngine_tfidf_map(load_master_ingredients(rows)) ELSE <<>>
    /\ prefix_index = IF e = "FuzzyMatcher" THEN _build_prefix_index(rows) ELSE <<>>
    /\ token_index = IF e = "FuzzyMatcher" THEN _build_token_index(rows) ELSE <<>>
    /\ master_data = IF e = "Matcher" THEN Matcher_master_data(rows, dtype) ELSE <<>>
    /\ normalized_lookup = IF e = "Matcher"
                           THEN Matcher_normalized_lookup(Matcher_master_data(rows, dtype))
                           ELSE <<>>
    /\ index = IF e = "Matcher" THEN _build_index(Matcher_master_data(rows, dtype)) ELSE <<>>

NoEngine ==
    /\ engine = "none"
    /\ ingredients = <<>> /\ tfidf_map = <<>> /\ prefix_index = <<>> /\ token_index = <<>>
    /\ master_data = <<>> /\ normalized_lookup = <<>> /\ index = <<>>

NoBatch == queries = <<>> /\ results = <<>> /\ batch_pc = "none"

NoText == raw = "" /\ norm = NoCall /\ renorm = NoCall

NoBlocking == blocked = NoCall

NoRepeat == hash_order = <<>> /\ returned = <<>>

NoService ==
    /\ service = "none" /\ service_pc = "none" /\ master_file = NoCall
    /\ building = NoCall /\ response = NoCall

Init ==
    /\ \E e \in Engines, rows \in Catalogs :
           /\ Constructed(e, rows, "str")
           /\ hash_order \in IF e = "Matcher" THEN HashOrders(StrIds(rows)) ELSE {<<>>}
    /\ last = NoCall
    /\ NoBatch
    /\ NoText
    /\ NoBlocking
    /\ NoService
    /\ returned = <<>>

(***************************************************************************)
(* Matching one text.                                                      *)
(***************************************************************************)
Called(query, result) ==
    [call |-> "match", query |-> query, ingredient_id |-> result.ingredient_id,
     confidence |-> result.confidence, candidates |-> result.candidates]

\* MatchingEngine.match(SupplierItem of query)
MatchingEngineMatch(query) ==
    /\ last = NoCall
    /\ blocked = NoCall
    /\ engine = "MatchingEngine"
    /\ last' = Called(query, MatchingEngine_match(SupplierItem(query), ingredients, tfidf_map))
    /\ UNCHANGED <<engineVars, batchVars, normVars, blockVars, serviceVars, repeatVars>>

\* FuzzyMatcher.match_single(query)
FuzzyMatcherMatchSingle(query) ==
    /\ last = NoCall
    /\ blocked = NoCall
    /\ engine = "FuzzyMatcher"
    /\ last' = Called(query, match_single(query, ingredients, prefix_index, token_index))
    /\ UNCHANGED <<engineVars, batchVars, normVars, blockVars, serviceVars, repeatVars>>

\* the thresholds Matcher.match is called with
Thresholds == {MATCH_THRESHOLD, 100}

\* Matcher.match(query, threshold)
MatcherMatch(query, threshold) ==
    /\ last = NoCall
    /\ blocked = NoCall
    /\ engine = "Matcher"
    /\ \E result \in {Matcher_match_in_order(query, threshold, master_data, normalized_lookup,
                                              index, hash_order)} :
           last' = [call |-> "match", query |-> query, threshold |-> threshold,
                    ingredient_id |-> result.ingredient_id,
                    confidence |-> result.confidence, candidates |-> result.candidates]
    /\ index' = IndexAfterLookups(index, Range(Split(normalize(query))))
    /\ hash_order' = iteration_order_after(hash_order)
    /\ UNCHANGED <<engine, ingredients, tfidf_map, prefix_index, token_index, master_data,
                   normalized_lookup, batchVars, normVars, blockVars, serviceVars, returned>>

\* the greatest max_candidates handed to get_candidates
MaxCandidates == 2

\* BlockingIndex.get_candidates(query, max_candidates)
GetCandidates(query, max_candidates) ==
    /\ last = NoCall
    /\ blocked = NoCall
    /\ engine = "FuzzyMatcher"
    /\ blocked' = [call |-> "get_candidates", query |-> query,
                   max_candidates |-> max_candidates,
                   candidates |-> get_candidates(query, max_candidates, ingredients,
                                                 prefix_index, token_index)]
    /\ UNCHANGED <<engineVars, last, batchVars, normVars, serviceVars, repeatVars>>

\* the call returns: its result is the caller's, and the engine takes the next call
Return ==
    /\ last # NoCall \/ blocked # NoCall
    /\ last' = NoCall
    /\ blocked' = NoCall
    /\ UNCHANGED <<engineVars, batchVars, normVars, serviceVars, repeatVars>>

Next ==
    \/ \E query \in Queries :
           \/ MatchingEngineMatch(query)
           \/ FuzzyMatcherMatchSingle(query)
           \/ MatcherMatch(query, MATCH_THRESHOLD)
           \/ \E max_candidates \in 1..MaxCandidates : GetCandidates(query, max_candidates)
    \/ Return

Spec == Init /\ [][Next]_vars

(***************************************************************************)
(* Calls that follow one another on one engine.                            *)
(***************************************************************************)
RepeatQueries == {"tomato", "oil", "xyz unknown"}

InitRepeat ==
    /\ \E e \in Engines, rows \in BatchCatalogs :
           /\ Constructed(e, rows, "str")
           /\ hash_order \in IF e = "Matcher" THEN HashOrders(StrIds(rows)) ELSE {<<>>}
    /\ last = NoCall
    /\ NoBatch
    /\ NoText
    /\ NoBlocking
    /\ NoService
    /\ returned = <<>>

\* the call returns, and the caller keeps what the first call for a query returned
ReturnRemembered ==
    /\ last # NoCall
    /\ last' = NoCall
    /\ returned' = IF last.query \in DOMAIN returned THEN returned
                   ELSE [query \in DOMAIN returned \cup {last.query} |->
                            IF query = last.query
                            THEN [ingredient_id |-> last.ingredient_id,
                                  confidence |-> last.confidence]
                            ELSE returned[query]]
    /\ UNCHANGED <<engineVars, batchVars, normVars, blockVars, serviceVars, hash_order>>

NextRepeat ==
    \/ \E query \in RepeatQueries :
           \/ MatchingEngineMatch(query)
           \/ FuzzyMatcherMatchSingle(query)
           \/ \E threshold \in Thresholds : MatcherMatch(query, threshold)
    \/ ReturnRemembered

SpecRepeat == InitRepeat /\ [][NextRepeat]_vars

(***************************************************************************)
(* A Matcher built on a frame whose ingredient_id column is of either      *)
(* type: str after astype(str), int as pd.read_csv reads a column of       *)
(* numbers.                                                                *)
(***************************************************************************)
FRAME_DTYPES == {"str", "int"}

FrameQueries == {"tomato", "Olive Oil", "oil", "xyz unknown", "1kg", ""}

InitFrame ==
    /\ \E rows \in BatchCatalogs, dtype \in FRAME_DTYPES :
           /\ Constructed("Matcher", rows, dtype)
           /\ hash_order \in HashOrders(StrIds(rows))
    /\ last = NoCall
    /\ NoBatch
    /\ NoText
    /\ NoBlocking
    /\ NoService
    /\ returned = <<>>

NextFrame ==
    \/ \E query \in FrameQueries : MatcherMatch(query, MATCH_THRESHOLD)
    \/ Return

SpecFrame == InitFrame /\ [][NextFrame]_vars

(***************************************************************************)
(* Matching a batch.                                                       *)
(***************************************************************************)
InitBatch ==
    /\ \E e \in {"MatchingEngine", "FuzzyMatcher"}, rows \in BatchCatalogs :
           Constructed(e, rows, "str")
    /\ last = NoCall
    /\ queries \in Batches
    /\ results = <<>>
    /\ batch_pc = "ready"
    /\ NoText
    /\ NoBlocking
    /\ NoService
    /\ NoRepeat

\* FuzzyMatcher.match_batch(queries)
MatchBatch ==
    /\ engine = "FuzzyMatcher"
    /\ batch_pc = "ready"
    /\ results' = match_batch(queries, ingredients, prefix_index, token_index)
    /\ batch_pc' = "done"
    /\ UNCHANGED <<engineVars, last, queries, normVars, blockVars, serviceVars, repeatVars>>

\* run_pipeline: matches = []
RunPipelineStart ==
    /\ engine = "MatchingEngine"
    /\ batch_pc = "ready"
    /\ results' = <<>>
    /\ batch_pc' = "running"
    /\ UNCHANGED <<engineVars, last, queries, normVars, blockVars, serviceVars, repeatVars>>

\* run_pipeline: one turn of the loop over supplier_items
RunPipelineStep ==
    /\ batch_pc = "running"
    /\ Len(results) < Len(queries)
    /\ results' = Append(results,
                         MatchingEngine_match(SupplierItem(queries[Len(results) + 1]),
                                              ingredients, tfidf_map))
    /\ UNCHANGED <<engineVars, last, queries, batch_pc, normVars, blockVars, serviceVars,
                   repeatVars>>

\* run_pipeline: the loop is over, the matches are saved
RunPipelineSave ==
    /\ batch_pc = "running"
    /\ Len(results) = Len(queries)
    /\ batch_pc' = "done"
    /\ UNCHANGED <<engineVars, last, queries, results, normVars, blockVars, serviceVars,
                   repeatVars>>

NextBatch == MatchBatch \/ RunPipelineStart \/ RunPipelineStep \/ RunPipelineSave

SpecBatch == InitBatch /\ [][NextBatch]_vars

(***************************************************************************)
(* Normalizing a text, and normalizing the result again.                   *)
(***************************************************************************)
InitNormalize ==
    /\ NoEngine
    /\ last = NoCall
    /\ NoBatch
    /\ raw \in Texts
    /\ norm = NoCall
    /\ renorm = NoCall
    /\ NoBlocking
    /\ NoService
    /\ NoRepeat

Normalized(by, text, tokens, applied) ==
    [call |-> by, text |-> text, tokens |-> tokens, applied |-> applied]

\* src/src/matcher.py preprocess_text(raw)
PreprocessText ==
    /\ norm = NoCall
    /\ norm' = Normalized("preprocess_text", preprocess_text(raw).text,
                          preprocess_text(raw).tokens, <<>>)
    /\ UNCHANGED <<engineVars, last, batchVars, raw, renorm, blockVars, serviceVars,
                   repeatVars>>

\* src/app/preprocessing.py TextPreprocessor.preprocess(raw) and get_tokens(raw)
Preprocess ==
    /\ norm = NoCall
    /\ norm' = Normalized("preprocess", preprocess(raw), get_tokens(raw), <<>>)
    /\ UNCHANGED <<engineVars, last, batchVars, raw, renorm, blockVars, serviceVars,
                   repeatVars>>

\* src/app/processing.py normalize(raw)
Normalize ==
    /\ norm = NoCall
    /\ norm' = Normalized("normalize", normalize(raw), Range(Split(normalize(raw))),
                          SynonymsApplied(Lower(raw), 1))
    /\ UNCHANGED <<engineVars, last, batchVars, raw, renorm, blockVars, serviceVars,
                   repeatVars>>

\* the normalizer that produced norm is handed its own output
Renormalize ==
    /\ norm # NoCall
    /\ renorm = NoCall
    /\ renorm' = CASE norm.call = "preprocess_text" ->
                          Normalized("preprocess_text", preprocess_text(norm.text).text,
                                     preprocess_text(norm.text).tokens, <<>>)
                   [] norm.call = "preprocess" ->
                          Normalized("preprocess", preprocess(norm.text),
                                     get_tokens(norm.text), <<>>)
                   [] norm.call = "normalize" ->
                          Normalized("normalize", normalize(norm.text),
                                     Range(Split(normalize(norm.text))),
                                     SynonymsApplied(Lower(norm.text), 1))
    /\ UNCHANGED <<engineVars, last, batchVars, raw, norm, blockVars, serviceVars,
                   repeatVars>>

NextNormalize == PreprocessText \/ Preprocess \/ Normalize \/ Renormalize

SpecNormalize == InitNormalize /\ [][NextNormalize]_vars

(***************************************************************************)
(* The services: src/src/app.py builds a MatchingEngine in its startup     *)
(* event, src/app/main.py a Matcher in its lifespan, src/app/api.py a       *)
(* FuzzyMatcher when the module is imported.                               *)
(***************************************************************************)
Services == {"src/src/app.py", "src/app/main.py", "src/app/api.py"}

ServiceEngine(module) ==
    CASE module = "src/src/app.py" -> "MatchingEngine"
      [] module = "src/app/main.py" -> "Matcher"
      [] OTHER -> "FuzzyMatcher"

\* a master file with one id on two rows
REPEATED_ID_CATALOG ==
    <<[ingredient_id |-> 1, name |-> "Tomato"], [ingredient_id |-> 1, name |-> "Onion"]>>

\* the master file is not there, lacks the name column, or holds these rows (none
\* when it has only the header line)
MasterFiles ==
    {[state |-> "missing", rows |-> <<>>], [state |-> "malformed", rows |-> <<>>]} \cup
    {[state |-> "ok", rows |-> rows] :
        rows \in {<<>>, SCENARIO_CATALOG, DUPLICATE_CATALOG, REPEATED_ID_CATALOG}}

ServiceQueries == {"", "  ", "tomato", "TOMATOES 1kg pack", "xyz unknown"}

\* the statements of a constructor that assign the fields of self
InitSteps(e) == IF e = "MatchingEngine" THEN 2 ELSE 3

\* self after the first step assignments of the constructor of engine class e
Building(e, rows, step) ==
    [engine |-> e, step |-> step,
     ingredients |-> CASE e = "MatchingEngine" /\ step >= 1 -> load_master_ingredients(rows)
                       [] e = "FuzzyMatcher" /\ step >= 1 -> rows
                       [] OTHER -> <<>>,
     tfidf_map |-> IF e = "MatchingEngine" /\ step >= 2
                   THEN MatchingEngine_tfidf_map(load_master_ingredients(rows)) ELSE <<>>,
     prefix_index |-> IF e = "FuzzyMatcher" /\ step >= 2
                      THEN _build_prefix_index(rows) ELSE <<>>,
     token_index |-> IF e = "FuzzyMatcher" /\ step >= 3 THEN _build_token_index(rows) ELSE <<>>,
     master_data |-> IF e = "Matcher" /\ step >= 1
                     THEN Matcher_master_data(rows, "str") ELSE <<>>,
     normalized_lookup |-> IF e = "Matcher" /\ step >= 2
                           THEN Matcher_normalized_lookup(Matcher_master_data(rows, "str"))
                           ELSE <<>>,
     index |-> IF e = "Matcher" /\ step >= 3
               THEN _build_index(Matcher_master_data(rows, "str")) ELSE <<>>]

\* an assignment of a constructor call has the object once __init__ has returned
ConstructionStarted(obj) == obj.step >= 1

ConstructionDone(obj) == obj.step = InitSteps(obj.engine)

InitService ==
    /\ NoEngine
    /\ last = NoCall
    /\ NoBatch
    /\ NoText
    /\ NoBlocking
    /\ service \in Services
    /\ service_pc = "starting"
    /\ master_file \in MasterFiles
    /\ building = NoCall
    /\ response = NoCall
    /\ hash_order \in IF service = "src/app/main.py" THEN HashOrders(StrIds(master_file.rows))
                      ELSE {<<>>}
    /\ returned = <<>>

\* startup reads the master file.  A missing or malformed file raises: out of the
\* startup event of src/src/app.py and out of the import of src/app/api.py, while
\* the lifespan of src/app/main.py catches it, leaves matcher_instance None and
\* goes on to serve.
LoadMaster ==
    /\ service_pc = "starting"
    /\ IF master_file.state = "ok"
       THEN /\ service_pc' = "constructing"
            /\ building' = Building(ServiceEngine(service), master_file.rows, 0)
       ELSE /\ service_pc' = IF service = "src/app/main.py" THEN "serving" ELSE "failed"
            /\ building' = building
    /\ UNCHANGED <<engineVars, last, batchVars, normVars, blockVars, service, master_file,
                   response, repeatVars>>

\* the constructor assigns the next field of self
ConstructStep ==
    /\ service_pc = "constructing"
    /\ building.step < InitSteps(building.engine)
    /\ building' = Building(building.engine, master_file.rows, building.step + 1)
    /\ UNCHANGED <<engineVars, last, batchVars, normVars, blockVars, service, service_pc,
                   master_file, response, repeatVars>>

\* matching_engine = MatchingEngine(ingredients), matcher_instance = Matcher(master_data),
\* matcher = FuzzyMatcher(ingredients): the module's global refers to the object
Publish ==
    /\ service_pc = "constructing"
    /\ ConstructionDone(building)
    /\ engine' = building.engine
    /\ ingredients' = building.ingredients
    /\ tfidf_map' = building.tfidf_map
    /\ prefix_index' = building.prefix_index
    /\ token_index' = building.token_index
    /\ master_data' = building.master_data
    /\ normalized_lookup' = building.normalized_lookup
    /\ index' = building.index
    /\ building' = NoCall
    /\ service_pc' = "serving"
    /\ UNCHANGED <<last, batchVars, normVars, blockVars, service, master_file, response,
                   repeatVars>>

\* a shutdown that leaves the module's reference to the engine in place
Shutdown_keeps_reference ==
    /\ service_pc = "serving"
    /\ service_pc' = "stopped"
    /\ UNCHANGED <<engineVars, last, batchVars, normVars, blockVars, service, master_file,
                   building, response, repeatVars>>

\* the server stops; the lifespan of src/app/main.py sets matcher_instance = None
Shutdown ==
    /\ service_pc = "serving"
    /\ service_pc' = "stopped"
    /\ IF service = "src/app/main.py"
       THEN /\ engine' = "none"
            /\ ingredients' = <<>> /\ tfidf_map' = <<>> /\ prefix_index' = <<>>
            /\ token_index' = <<>> /\ master_data' = <<>> /\ normalized_lookup' = <<>>
            /\ index' = <<>>
       ELSE UNCHANGED engineVars
    /\ UNCHANGED <<last, batchVars, normVars, blockVars, service, master_file, building,
                   response, repeatVars>>

\* what a handler ends with: a response it returns or an HTTPException it raises,
\* and whether it called the engine
Returned(result) ==
    [raised |-> FALSE, status |-> 200, ingredient_id |-> result.ingredient_id,
     confidence |-> result.confidence, invoked |-> TRUE]

HTTPException(status_code, invoked) ==
    [raised |-> TRUE, status |-> status_code, ingredient_id |-> None, confidence |-> Zero,
     invoked |-> invoked]

\* except Exception as e: raise HTTPException(status_code=500, ...).  HTTPException
\* is an Exception, so one raised inside the try block is caught here as well.
except_Exception(outcome) ==
    IF outcome.raised THEN HTTPException(500, outcome.invoked) ELSE outcome

\* src/src/app.py match_item(request)
app_match_item(raw_name, matching_engine, ingredient_list, tfidf) ==
    IF matching_engine = "none" THEN HTTPException(500, FALSE)
    ELSE except_Exception(
             IF raw_name = "" \/ Strip(raw_name) = "" THEN HTTPException(400, FALSE)
             ELSE Returned(MatchingEngine_match(SupplierItem(raw_name), ingredient_list,
                                                tfidf)))

\* src/app/api.py match_item(request)
api_match_item(raw_name, ingredient_list, pindex, tindex) ==
    IF raw_name = "" \/ Strip(raw_name) = "" THEN HTTPException(400, FALSE)
    ELSE Returned(match_single(raw_name, ingredient_list, pindex, tindex))

\* src/app/main.py get_matcher() and match_item(request)
main_match_item(raw_name, matcher_instance, frame, lookup, idx, order) ==
    IF matcher_instance = "none" THEN HTTPException(503, FALSE)
    ELSE except_Exception(Returned(Matcher_match_in_order(raw_name, MATCH_THRESHOLD, frame,
                                                          lookup, idx, order)))

\* a POST /match with this raw_name is handled.  The route of src/app/api.py exists
\* only once the module has been imported to its end.
MatchItem(raw_name) ==
    /\ response = NoCall
    /\ service_pc # "failed"
    /\ service = "src/app/api.py" => service_pc \in {"serving", "stopped"}
    /\ \E outcome \in
              {CASE service = "src/src/app.py" ->
                        app_match_item(raw_name, engine, ingredients, tfidf_map)
                 [] service = "src/app/api.py" ->
                        api_match_item(raw_name, ingredients, prefix_index, token_index)
                 [] OTHER -> main_match_item(raw_name, engine, master_data, normalized_lookup,
                                             index, hash_order)} :
           response' = [call |-> "POST /match", raw_name |-> raw_name,
                        status |-> outcome.status, ingredient_id |-> outcome.ingredient_id,
                        confidence |-> outcome.confidence, invoked |-> outcome.invoked,
                        during |-> service_pc]
    /\ UNCHANGED <<engineVars, last, batchVars, normVars, blockVars, service, service_pc,
                   master_file, building, repeatVars>>

\* the response is sent
Respond ==
    /\ response # NoCall
    /\ response' = NoCall
    /\ UNCHANGED <<engineVars, last, batchVars, normVars, blockVars, service, service_pc,
                   master_file, building, repeatVars>>

NextService ==
    \/ LoadMaster
    \/ ConstructStep
    \/ Publish
    \/ Shutdown
    \/ \E raw_name \in ServiceQueries : MatchItem(raw_name)
    \/ Respond

SpecService == InitService /\ [][NextService]_vars

(***************************************************************************)
(* Properties of one match call.  They read the call in flight (last)      *)
(* against the engine it ran on.                                           *)
(***************************************************************************)
Entries == IF engine = "Matcher" THEN master_data ELSE ingredients

EntryPositions == 1..Len(Entries)

\* the id an engine returns for the entry at position i
EntryId(i) ==
    IF engine = "Matcher" THEN str(master_data[i].ingredient_id)
    ELSE IntId(ingredients[i].ingredient_id)

EntryTokens(i) ==
    CASE engine = "MatchingEngine" -> ingredients[i].tokens
      [] engine = "FuzzyMatcher" -> get_tokens(ingredients[i].name)
      [] OTHER -> Range(Split(master_data[i].normalized_name))

QueryNormalized ==
    CASE engine = "MatchingEngine" -> SupplierItem(last.query).normalized_name
      [] engine = "FuzzyMatcher" -> preprocess(last.query)
      [] OTHER -> normalize(last.query)

QueryTokens ==
    CASE engine = "MatchingEngine" -> SupplierItem(last.query).tokens
      [] engine = "FuzzyMatcher" -> get_tokens(last.query)
      [] OTHER -> Range(Split(normalize(last.query)))

\* the positions of the entries the call took as candidates
CandidatePositions ==
    IF engine = "Matcher"
    THEN {i \in EntryPositions : str(master_data[i].ingredient_id) \in last.candidates}
    ELSE Range(last.candidates)

\* the candidates the call gave a score
ScoredPositions ==
    IF engine = "Matcher"
    THEN {i \in CandidatePositions :
              /\ str(master_data[i].ingredient_id) \in DOMAIN normalized_lookup
              /\ normalized_lookup[str(master_data[i].ingredient_id)] # ""}
    ELSE CandidatePositions

EntryScore(i) ==
    CASE engine = "MatchingEngine" -> compute_similarity(QueryNormalized, ingredients[i], tfidf_map)
      [] engine = "FuzzyMatcher" -> combined_similarity(last.query, ingredients[i].name)
      [] OTHER -> Frac(token_set_ratio(QueryNormalized,
                                       normalized_lookup[str(master_data[i].ingredient_id)]), 100)

\* the blocking rule of the specification: one shared token for an entry of one
\* token, two for any other entry
RuleMinimum(i) == IF Cardinality(EntryTokens(i)) = 1 THEN 1 ELSE 2

RulePositions ==
    {i \in EntryPositions : Cardinality(QueryTokens \cap EntryTokens(i)) >= RuleMinimum(i)}

NoEntryId == {None, IntId(-1)}

\* C1: MatchingEngine.match and Matcher.match return, among the scored candidates,
\* one of the highest score, and of the candidates that tie on that score the one
\* of the lowest id.
C1_HighestScoreLowestIdOnTie ==
    (last # NoCall /\ engine \in {"MatchingEngine", "Matcher"} /\ ScoredPositions # {}) =>
        \E w \in ScoredPositions :
            /\ last.ingredient_id = EntryId(w)
            /\ \A o \in ScoredPositions :
                   /\ FracLeq(EntryScore(o), EntryScore(w))
                   /\ EntryScore(o) = EntryScore(w) => EntryId(w)[2] <= EntryId(o)[2]

\* C2: on a non-empty catalog, a query whose normal form is not empty and shares
\* no token with any entry gets every entry as a candidate, and the match returns
\* the id of an entry.
C2_NoSharedTokenFallsBackToAll ==
    (/\ last # NoCall
     /\ EntryPositions # {}
     /\ QueryNormalized # ""
     /\ \A i \in EntryPositions : QueryTokens \cap EntryTokens(i) = {}) =>
        /\ CandidatePositions = EntryPositions
        /\ \E i \in EntryPositions : last.ingredient_id = EntryId(i)

\* inputs made only of quantity/unit fragments
SIZE_ONLY_INPUTS == {"1kg", "1kg pack"}

\* C3: an empty, whitespace-only or quantity/unit-only input gets no entry id and
\* confidence 0.0, on every catalog.
C3_UnmatchableInputNoMatch ==
    (last # NoCall /\ (Strip(last.query) = "" \/ last.query \in SIZE_ONLY_INPUTS)) =>
        /\ last.ingredient_id \in NoEntryId
        /\ last.confidence = Zero

\* C4: a query that is the raw name of an entry, the name not empty, gets that
\* entry's id with confidence 1.0.
C4_VerbatimNameReturnsEntry ==
    last # NoCall =>
        \A i \in EntryPositions :
            (Entries[i].name = last.query /\ last.query # "") =>
                /\ last.ingredient_id = EntryId(i)
                /\ last.confidence = One

InUnitInterval(score) == FracLeq(Zero, score) /\ FracLeq(score, One)

\* C5: the confidence a match returns is within [0, 1], and so is every metric of
\* the query against every entry, and their combination.
C5_ConfidenceInUnitInterval ==
    last # NoCall =>
        /\ InUnitInterval(last.confidence)
        /\ engine = "MatchingEngine" =>
               \A i \in EntryPositions :
                   /\ InUnitInterval(levenshtein_similarity(QueryNormalized,
                                                            ingredients[i].normalized_name))
                   /\ InUnitInterval(jaro_winkler_similarity(QueryNormalized,
                                                             ingredients[i].normalized_name))
                   /\ InUnitInterval(EntryScore(i))
        /\ engine = "FuzzyMatcher" =>
               \A i \in EntryPositions :
                   /\ InUnitInterval(token_set_similarity(last.query, ingredients[i].name))
                   /\ InUnitInterval(string_similarity(last.query, ingredients[i].name))
                   /\ InUnitInterval(EntryScore(i))

\* a match came back with a confidence strictly between 0 and 1, from each engine's
\* way of scoring: here from the prefix-weighted metric of MatchingEngine
C5_FractionalConfidence ==
    /\ last # NoCall
    /\ engine = "MatchingEngine"
    /\ FracLess(Zero, last.confidence)
    /\ FracLess(last.confidence, One)
    /\ \E i \in CandidatePositions :
           /\ PrefixLen(QueryNormalized, ingredients[i].normalized_name, 1) > 0
           /\ last.confidence = Round4(jaro_winkler_similarity(QueryNormalized,
                                                               ingredients[i].normalized_name))

\* C10, as the code has it: MatchingEngine's candidates are exactly the entries that
\* share with the query one token when the entry has one token, two otherwise, with
\* no fallback; FuzzyMatcher's are the entries that share a 2- or 3-character prefix
\* of the normal form or one token with the query, every entry when there is none;
\* Matcher's are the entries that share one token, every entry when there is none.
C10_BlockingRulePerEngine ==
    (last # NoCall /\ QueryNormalized # "") =>
        LET shares_token == {i \in EntryPositions : QueryTokens \cap EntryTokens(i) # {}}
            shares_prefix ==
                {i \in EntryPositions :
                    Prefixes(QueryNormalized) \cap Prefixes(preprocess(Entries[i].name)) # {}}
        IN CASE engine = "MatchingEngine" -> CandidatePositions = RulePositions
             [] engine = "FuzzyMatcher" ->
                    \/ Strip(last.query) = ""
                    \/ CandidatePositions = IF shares_token \cup shares_prefix = {}
                                            THEN EntryPositions
                                            ELSE shares_token \cup shares_prefix
             [] OTHER -> CandidatePositions = IF shares_token = {} THEN EntryPositions
                                              ELSE shares_token

\* C10, as stated: in every engine the candidates are exactly the entries the
\* blocking rule selects; when it selects none they are none, or every entry by
\* fallback.
C10_BlockingRuleEveryEngine ==
    (last # NoCall /\ QueryNormalized # "") =>
        IF RulePositions # {} THEN CandidatePositions = RulePositions
        ELSE CandidatePositions \in {{}, EntryPositions}

\* MatchingEngine left out an entry of two tokens that shares one token with the
\* query, and took an entry of one token that shares it
C10_OneTokenEntryIn_TwoTokenEntryOut ==
    /\ last # NoCall
    /\ engine = "MatchingEngine"
    /\ \E i \in EntryPositions :
           /\ Cardinality(EntryTokens(i)) = 2
           /\ Cardinality(QueryTokens \cap EntryTokens(i)) = 1
           /\ i \notin CandidatePositions
    /\ \E j \in CandidatePositions :
           /\ Cardinality(EntryTokens(j)) = 1
           /\ Cardinality(QueryTokens) > 1

\* the engine was built on the master list of the scenarios
OnScenarioCatalog ==
    /\ Len(Entries) = Len(SCENARIO_CATALOG)
    /\ \A i \in EntryPositions :
           /\ Entries[i].name = SCENARIO_CATALOG[i].name
           /\ EntryId(i)[2] = SCENARIO_CATALOG[i].ingredient_id

\* C18: on the master list {1: Tomato, 2: Onion, 3: Garlic} a match of
\* "TOMATOES 1kg pack" returns the id of entry 1 with a confidence above 0.5.
C18_PluralWithNoiseMatchesTomato ==
    (last # NoCall /\ OnScenarioCatalog /\ last.query = "TOMATOES 1kg pack") =>
        /\ last.ingredient_id = EntryId(1)
        /\ FracLess(Frac(1, 2), last.confidence)

\* C19: on the master list {1: Tomato, 2: Onion, 3: Garlic} a match of
\* "gralic peeled 100g", which differs from Garlic only by a corrected misspelling,
\* a stopword and a quantity, returns the id of entry 3 with confidence exactly 1.0.
C19_MisspellingWithNoiseIsExact ==
    (last # NoCall /\ OnScenarioCatalog /\ last.query = "gralic peeled 100g") =>
        /\ last.ingredient_id = EntryId(3)
        /\ last.confidence = One

\* C15: MatchingEngine.match and Matcher.match return a candidate of the highest
\* score with that score as confidence whenever a candidate was scored, however low
\* the score, and what Matcher.match can return is the same for every threshold.
C15_BestReturnedWhateverThreshold ==
    (last # NoCall /\ engine \in {"MatchingEngine", "Matcher"} /\ ScoredPositions # {}) =>
        LET score == [i \in ScoredPositions |-> EntryScore(i)]
        IN /\ last.ingredient_id \notin NoEntryId
           /\ \E w \in ScoredPositions :
                  /\ last.ingredient_id = EntryId(w)
                  /\ \A o \in ScoredPositions : FracLeq(score[o], score[w])
                  /\ last.confidence = IF engine = "MatchingEngine" THEN Round4(score[w])
                                       ELSE score[w]
           /\ engine = "Matcher" =>
                  \A threshold \in Thresholds \ {last.threshold} :
                      last \in {[call |-> "match", query |-> last.query,
                                 threshold |-> last.threshold,
                                 ingredient_id |-> result.ingredient_id,
                                 confidence |-> result.confidence,
                                 candidates |-> result.candidates] :
                                   result \in Matcher_match(last.query, threshold, master_data,
                                                            normalized_lookup, index)}

\* Matcher.match returned an entry whose confidence is under the threshold it was
\* given, and MatchingEngine.match can return one under MIN_CONFIDENCE_THRESHOLD
C15_ReturnedUnderThreshold ==
    /\ last # NoCall
    /\ last.ingredient_id \notin NoEntryId
    /\ \/ engine = "Matcher" /\ FracLess(last.confidence, Frac(last.threshold, 100))
       \/ engine = "MatchingEngine" /\ FracLess(last.confidence, MIN_CONFIDENCE_THRESHOLD)

(***************************************************************************)
(* Properties of a batch.                                                  *)
(***************************************************************************)
\* what one match call of the engine returns for a query
SingleMatch(query) ==
    IF engine = "FuzzyMatcher"
    THEN match_single(query, ingredients, prefix_index, token_index)
    ELSE MatchingEngine_match(SupplierItem(query), ingredients, tfidf_map)

\* C6: a finished batch holds one result per query, the i-th being what a single
\* match returns for the i-th query.
C6_BatchInInputOrder ==
    batch_pc = "done" =>
        /\ Len(results) = Len(queries)
        /\ \A i \in 1..Len(queries) : results[i] = SingleMatch(queries[i])

\* a finished batch of two queries that get different results
C6_TwoDifferentResults ==
    /\ batch_pc = "done"
    /\ Len(queries) = 2
    /\ Len(results) = 2
    /\ results[1] # results[2]
    /\ results[1].ingredient_id \notin NoEntryId

(***************************************************************************)
(* Properties of the normalizers.                                          *)
(***************************************************************************)
\* C7: a normalizer handed its own output returns the same string and the same
\* token set.
C7_NormalizeIdempotent ==
    renorm # NoCall => (renorm.text = norm.text /\ renorm.tokens = norm.tokens)

\* the texts of the words of raw in every order
Reorderings(text) ==
    LET words == Split(text)
        n == Len(words)
    IN {Join([i \in 1..n |-> words[order[i]]]) :
           order \in {f \in [1..n -> 1..n] : \A i, j \in 1..n : f[i] = f[j] => i = j}}

\* C8: processing.normalize returns the same string, hence the same token set, for
\* the words of its input in any other order.
C8_NormalizeOrderIndependent ==
    (norm # NoCall /\ norm.call = "normalize") =>
        \A other \in Reorderings(raw) : normalize(other) = norm.text

IsMultiWord(key) == Contains(key, " ")

\* C9: when a multi-word key and a single-word key of SYNONYM_MAP both occur in the
\* text, the multi-word rule runs, and runs before the single-word rule.
C9_MultiWordRuleFirst ==
    (norm # NoCall /\ norm.call = "normalize") =>
        \A m, s \in 1..Len(SYNONYM_MAP) :
            (/\ IsMultiWord(SYNONYM_MAP[m][1])
             /\ ~IsMultiWord(SYNONYM_MAP[s][1])
             /\ Contains(Lower(raw), SYNONYM_MAP[m][1])
             /\ Contains(Lower(raw), SYNONYM_MAP[s][1])) =>
                \E a \in 1..Len(norm.applied) :
                    /\ norm.applied[a] = SYNONYM_MAP[m][1]
                    /\ \A b \in 1..Len(norm.applied) :
                           norm.applied[b] = SYNONYM_MAP[s][1] => a < b

(***************************************************************************)
(* Properties of one get_candidates call.                                  *)
(***************************************************************************)
\* the ids of the entries at the positions a get_candidates call returned
BlockedIds == {ingredients[i].ingredient_id : i \in Range(blocked.candidates)}

\* the ids of the candidate set of the call before it was cut to max_candidates
UncutIds ==
    {ingredients[i].ingredient_id :
        i \in Range(get_candidates(blocked.query, Len(ingredients), ingredients,
                                   prefix_index, token_index))}

\* C11: when the candidate set is larger than max_candidates, get_candidates keeps
\* max_candidates entries and they are those of the smallest ids: every entry it
\* keeps has a smaller id than every candidate it drops.
C11_KeepsSmallestIds ==
    (blocked # NoCall /\ Cardinality(UncutIds) > blocked.max_candidates) =>
        /\ Cardinality(BlockedIds) = blocked.max_candidates
        /\ BlockedIds \subseteq UncutIds
        /\ \A kept \in BlockedIds : \A dropped \in UncutIds \ BlockedIds : kept < dropped

(***************************************************************************)
(* Properties of every step of an engine that serves calls.                *)
(***************************************************************************)
\* C12: no match call and no get_candidates call changes the engine: the master
\* list, the token and prefix indices, the normalized-name lookup and the
\* precomputed term-weight vectors stay as construction left them.
C12_MatchLeavesEngineUnchanged == [][engineVars' = engineVars]_vars

\* Matcher.match has looked up a query none of whose tokens is a key of the index
C12_AbsentTokensLookedUp ==
    /\ last # NoCall
    /\ engine = "Matcher"
    /\ QueryTokens # {}
    /\ QueryTokens \cap DOMAIN index = {}
    /\ last.ingredient_id # None

(***************************************************************************)
(* Properties of a service.                                                *)
(***************************************************************************)
\* what a fully built engine of the service answers to a raw name
FullyBuiltAnswers(raw_name) ==
    LET rows == master_file.rows
    IN CASE service = "src/src/app.py" ->
                {MatchingEngine_match(SupplierItem(raw_name), load_master_ingredients(rows),
                                      MatchingEngine_tfidf_map(load_master_ingredients(rows)))}
         [] service = "src/app/api.py" ->
                {match_single(raw_name, rows, _build_prefix_index(rows),
                              _build_token_index(rows))}
         [] OTHER ->
                Matcher_match(raw_name, MATCH_THRESHOLD, Matcher_master_data(rows, "str"),
                              Matcher_normalized_lookup(Matcher_master_data(rows, "str")),
                              _build_index(Matcher_master_data(rows, "str")))

\* C13: the module's engine reference is None or a fully built engine at every
\* point of startup, serving and shutdown, so a POST /match is rejected for want of
\* an engine or answered as a fully built engine answers.
C13_NoPartiallyBuiltEngineSeen ==
    /\ service # "none" /\ engine # "none" =>
           Constructed(ServiceEngine(service), master_file.rows, "str")
    /\ service # "none" /\ response # NoCall /\ response.invoked =>
           \E answer \in FullyBuiltAnswers(response.raw_name) :
               /\ response.ingredient_id = answer.ingredient_id
               /\ response.confidence = answer.confidence

\* a request handled while the constructor was running found no engine
C13_RejectedDuringConstruction ==
    /\ service_pc = "constructing"
    /\ building.step >= 1
    /\ response # NoCall
    /\ response.during = "constructing"
    /\ response.status \in {500, 503}
    /\ ~response.invoked

\* C14: an engine is produced only from a master list that is well formed, is not
\* empty and has no id twice.
C14_EngineOnlyFromValidCatalog ==
    (service # "none" /\ engine # "none") =>
        /\ master_file.state = "ok"
        /\ master_file.rows # <<>>
        /\ \A i, j \in 1..Len(master_file.rows) :
               master_file.rows[i].ingredient_id = master_file.rows[j].ingredient_id => i = j

\* C16: src/src/app.py and src/app/api.py answer a POST /match whose raw_name is
\* empty or only whitespace with status 400 and do not call the engine for it.
C16_EmptyRawNameIs400 ==
    (/\ service \in {"src/src/app.py", "src/app/api.py"}
     /\ response # NoCall
     /\ Strip(response.raw_name) = "") =>
        /\ response.status = 400
        /\ ~response.invoked

PACK_WORDS == {"pack", "box", "can"}

\* a <number><unit> fragment, as the normalizer named by recognizes one, starts at i
SizeFragmentAt(by, s, i) ==
    CASE by = "preprocess_text" -> SizeInfoMatchEnd(s, i) > 0
      [] by = "preprocess" -> UnitMatchEnd(s, i) > 0
      [] OTHER -> SizeRegexMatchEnd(s, i) > 0

\* C20: the string and the token set a normalizer returns hold no <number><unit>
\* fragment and no bare pack, box or can word, and "TOMATO 1kg PACK" is normalized
\* to the string "tomato" with the token set {tomato}.
C20_NoSizeInfoSurvives ==
    norm # NoCall =>
        /\ \A w \in Range(Split(norm.text)) \cup norm.tokens : w \notin PACK_WORDS
        /\ \A i \in 1..Len(norm.text) : ~SizeFragmentAt(norm.call, norm.text, i)
        /\ \A t \in norm.tokens : ~SizeFragmentAt(norm.call, t, 1)
        /\ raw = "TOMATO 1kg PACK" => (norm.text = "tomato" /\ norm.tokens = {"tomato"})

(***************************************************************************)
(* Properties of the metrics.                                              *)
(***************************************************************************)
\* |A \cap B| / |A \cup B|, 1.0 for two empty sets and 0.0 for one
Jaccard(A, B) ==
    IF A = {} /\ B = {} THEN One
    ELSE IF A = {} \/ B = {} THEN Zero
    ELSE Frac(Cardinality(A \cap B), Cardinality(A \cup B))

\* C21: FuzzyMatcher.token_set_similarity of the query and an entry's name is the
\* Jaccard measure of their token sets, 1.0 when both sets are empty and 0.0 when
\* exactly one is, and it is what match_single blends into the confidence it returns.
C21_TokenSetSimilarityIsJaccard ==
    (last # NoCall /\ engine = "FuzzyMatcher") =>
        /\ \A i \in EntryPositions :
               token_set_similarity(last.query, ingredients[i].name)
                   = Jaccard(QueryTokens, EntryTokens(i))
        /\ last.ingredient_id \notin NoEntryId =>
               \E i \in CandidatePositions :
                   /\ last.ingredient_id = EntryId(i)
                   /\ last.confidence = Blend(Jaccard(QueryTokens, EntryTokens(i)),
                                              string_similarity(last.query, ingredients[i].name))

\* match_single scored a query without tokens against an entry without tokens and
\* against an entry with tokens
C21_EmptyAgainstEmptyAndNonEmpty ==
    /\ last # NoCall
    /\ engine = "FuzzyMatcher"
    /\ Strip(last.query) # ""
    /\ QueryTokens = {}
    /\ \E i, j \in CandidatePositions : EntryTokens(i) = {} /\ EntryTokens(j) # {}
    /\ last.confidence = One

\* every weight of the vector is 0
AllZero(vec) == \A k \in DOMAIN vec.w : vec.w[k] = 0

\* C22: of the vectors build_tfidf_vectors made for the entries of a MatchingEngine,
\* those of two entries with the same normalized name, the name holding a term that
\* is no stop word, have cosine similarity 1.0, and a similarity of 0.0 occurs only
\* when a vector is all-zero or the two share no term of non-zero weight.
C22_IdenticalDocumentsCosineOne ==
    engine = "MatchingEngine" =>
        \A i, j \in EntryPositions :
            LET vec1 == tfidf_map[ingredients[i].normalized_name]
                vec2 == tfidf_map[ingredients[j].normalized_name]
            IN /\ (/\ ingredients[i].normalized_name = ingredients[j].normalized_name
                   /\ DOMAIN vec1.w # {}) =>
                      tfidf_similarity(vec1, vec2) = One
               /\ tfidf_similarity(vec1, vec2) = Zero =>
                      \/ AllZero(vec1)
                      \/ AllZero(vec2)
                      \/ \A k \in DOMAIN vec1.w \cap DOMAIN vec2.w :
                             vec1.w[k] = 0 \/ vec2.w[k] = 0

\* the entry at position i shares with the query no token and no 2- or 3-character
\* prefix of the normal form
NothingInCommon(i) ==
    /\ QueryTokens \cap EntryTokens(i) = {}
    /\ engine = "FuzzyMatcher" =>
           Prefixes(QueryNormalized) \cap Prefixes(preprocess(ingredients[i].name)) = {}

\* C23: a query whose normal form is not empty and that has nothing in common with
\* any entry gets no entry: MatchingEngine.match returns None and
\* FuzzyMatcher.match_single returns -1, both with confidence 0.0.
C23_NothingInCommonNoMatch ==
    (/\ last # NoCall
     /\ engine \in {"MatchingEngine", "FuzzyMatcher"}
     /\ QueryNormalized # ""
     /\ \A i \in EntryPositions : NothingInCommon(i)) =>
        /\ last.ingredient_id = IF engine = "MatchingEngine" THEN None ELSE IntId(-1)
        /\ last.confidence = Zero

(***************************************************************************)
(* Properties of the indexes.                                              *)
(***************************************************************************)
\* the tokens of all entries
AllEntryTokens == UNION {EntryTokens(i) : i \in EntryPositions}

\* C24: the token index of a FuzzyMatcher and the index of a Matcher list an entry
\* under a token if and only if the token is one of the entry's tokens: the keys
\* are the tokens of the entries, and under each key stand the entries that hold it.
C24_TokenIndexExact ==
    /\ engine = "FuzzyMatcher" =>
           /\ DOMAIN token_index = AllEntryTokens
           /\ \A t \in AllEntryTokens, i \in EntryPositions :
                  i \in Range(token_index[t]) <=> t \in EntryTokens(i)
    /\ engine = "Matcher" =>
           /\ DOMAIN index = AllEntryTokens
           /\ \A t \in AllEntryTokens, i \in EntryPositions :
                  EntryId(i) \in index[t] <=> t \in EntryTokens(i)

\* a Matcher was built on a master list with an entry of two tokens and an entry
\* whose normalized name is empty, and has answered a match
C24_IndexOfTwoTokenAndEmptyEntry ==
    /\ engine = "Matcher"
    /\ last # NoCall
    /\ \E i, j \in EntryPositions :
           /\ Cardinality(EntryTokens(i)) = 2
           /\ EntryTokens(j) = {}
           /\ \A t \in EntryTokens(i) : index[t] = {EntryId(i)}

(***************************************************************************)
(* Properties of the result of one match call, continued.                  *)
(***************************************************************************)
\* C25: a match that returns no entry id (None from MatchingEngine and Matcher, -1
\* from FuzzyMatcher) returns confidence 0.0, so a confidence other than 0.0 comes
\* with the id of an entry.
C25_NoIdMeansZeroConfidence ==
    last # NoCall =>
        /\ last.ingredient_id \in NoEntryId => last.confidence = Zero
        /\ last.confidence # Zero => \E i \in EntryPositions : last.ingredient_id = EntryId(i)

\* a match took candidates, gave every one of them no score above 0.0 or no score
\* at all, and returned no entry id
C25_CandidatesButNoId ==
    /\ last # NoCall
    /\ CandidatePositions # {}
    /\ last.ingredient_id \in NoEntryId

\* C26: whatever the type of the ingredient_id column Matcher was built on, every
\* candidate id of a match is a key of normalized_lookup, and a query whose normal
\* form is not empty gets an entry id when some entry has a normalized name that is
\* not empty.
C26_CandidatesAreLookupKeys ==
    (last # NoCall /\ engine = "Matcher") =>
        /\ last.candidates \subseteq DOMAIN normalized_lookup
        /\ (/\ normalize(last.query) # ""
            /\ \E i \in EntryPositions : master_data[i].normalized_name # "") =>
               last.ingredient_id # None

\* what scoring every entry and picking the best gives, by the engine's own scores
\* and its own way of picking: the set of the (id, confidence) it can end with
UnblockedResults ==
    CASE engine = "MatchingEngine" ->
             IF ingredients = <<>> THEN {<<None, Zero>>}
             ELSE LET best == MaxByScoreAndId(
                                  [i \in EntryPositions |->
                                      [ingredient |-> ingredients[i], sim |-> EntryScore(i)]])
                  IN {<<IntId(best.ingredient.ingredient_id), Round4(best.sim)>>}
      [] engine = "FuzzyMatcher" ->
             LET result == MatchSingleScores(last.query, ingredients, Positions(ingredients))
             IN {<<result.ingredient_id, result.confidence>>}
      [] OTHER ->
             {<<result.ingredient_id, result.confidence>> :
                 result \in Matcher_match_loop(last.query, master_data, normalized_lookup, <<>>)}

\* C27: for a query whose normal form is not empty, the id and confidence a match
\* returns from its blocked candidates are those that scoring every entry of the
\* catalog and picking the best gives.
C27_BlockingKeepsTheAnswer ==
    (last # NoCall /\ QueryNormalized # "") =>
        <<last.ingredient_id, last.confidence>> \in UnblockedResults

\* the vector compute_similarity builds for the query, from the corpus of the query
\* alone
QueryVector == build_tfidf_vectors(<<QueryNormalized>>, STOP_WORDS)[QueryNormalized]

\* C28: in MatchingEngine.compute_similarity every weight of the query's vector is
\* 0, the cosine term is 0.0 against every entry, and the combined score of every
\* entry is its prefix-weighted similarity, which is what a match returns rounded.
C28_CosineTermAlwaysZero ==
    (last # NoCall /\ engine = "MatchingEngine") =>
        /\ AllZero(QueryVector)
        /\ \A i \in EntryPositions :
               /\ tfidf_similarity(QueryVector, tfidf_map[ingredients[i].normalized_name]) = Zero
               /\ EntryScore(i) = jaro_winkler_similarity(QueryNormalized,
                                                          ingredients[i].normalized_name)
        /\ last.ingredient_id \notin NoEntryId =>
               \E i \in CandidatePositions :
                   /\ last.ingredient_id = EntryId(i)
                   /\ last.confidence = Round4(jaro_winkler_similarity(
                                                   QueryNormalized, ingredients[i].normalized_name))

\* a match scored an entry that shares a term with the query, the term having a
\* weight other than 0 in the entry's vector
C28_SharedTermWeightedInEntryOnly ==
    /\ last # NoCall
    /\ engine = "MatchingEngine"
    /\ \E i \in CandidatePositions :
           \E t \in DOMAIN QueryVector.w \cap DOMAIN tfidf_map[ingredients[i].normalized_name].w :
               tfidf_map[ingredients[i].normalized_name].w[t] # 0

\* the words of a text that are made of letters only and are no unit
NonUnitWords(text) ==
    {w \in Range(Split(Lower(text))) :
        /\ \A k \in 1..Len(w) : Within(Ch(w, k), LowerLetters)
        /\ \A u \in 1..Len(UNIT_PATTERNS) : w # UNIT_PATTERNS[u]}

\* C29: TextPreprocessor.normalize_text removes no character of a word that is not
\* a unit: every such word of the input is a word of its result, also when it
\* follows a number and starts with the letters of a unit.
C29_NonUnitWordsSurvive ==
    (norm # NoCall /\ norm.call = "preprocess") =>
        /\ norm.text = correct_misspellings(TextPreprocessor_normalize_text(raw))
        /\ NonUnitWords(raw) \subseteq Range(Split(TextPreprocessor_normalize_text(raw)))

(***************************************************************************)
(* Properties of the services, continued.                                  *)
(***************************************************************************)
\* C30: in the service of src/app/main.py, when the master file is missing or
\* malformed matcher_instance stays None for the life of the process, after
\* shutdown it is None again, and a POST /match handled while it is None is
\* answered 503 without a call of the engine: only a request handled while the
\* service serves a Matcher built from a readable file gets a match result.
C30_NoAnswerFromFailedOrStoppedEngine ==
    service = "src/app/main.py" =>
        /\ master_file.state # "ok" => engine = "none"
        /\ service_pc = "stopped" => engine = "none"
        /\ response # NoCall =>
               /\ (master_file.state # "ok" \/ response.during = "stopped") =>
                      (response.status = 503 /\ ~response.invoked)
               /\ response.invoked =>
                      /\ response.during = "serving"
                      /\ master_file.state = "ok"
                      /\ response.status = 200
                      /\ \E answer \in FullyBuiltAnswers(response.raw_name) :
                             /\ response.ingredient_id = answer.ingredient_id
                             /\ response.confidence = answer.confidence

\* a request came after the load of the master file had failed, and was answered 503
C30_RejectedAfterFailedLoad ==
    /\ service = "src/app/main.py"
    /\ master_file.state # "ok"
    /\ response # NoCall
    /\ response.during = "serving"
    /\ response.status = 503

====
